---------------------------- MODULE Spec2Model ----------------------------
(***************************************************************************)
(* The cryptanalysis engine of gameday-agentcore: the eight decoder tools  *)
(* (Caesar, Atbash, substitution hill-climb, Morse, Rail Fence, Polybius,  *)
(* acrostic, A1Z26) and the helpers they are built from, and the command   *)
(* agent around them: the lazily built swarm shared by threads and the     *)
(* entrypoint with its heartbeat task.                                     *)
(*                                                                         *)
(* Strings are sequences of Unicode code points (naturals), so that ord(), *)
(* chr(), str.upper() and alphabet.index() are arithmetic on the code, and *)
(* every literal of the source appears as its code points with the text in *)
(* a comment.  A call that raises is the outcome [kind |-> "raise"]; a     *)
(* call that returns is [kind |-> "return", value |-> <the string>].       *)
(* Scores are exact rationals [num, den]; floating-point rounding of the   *)
(* source's float arithmetic is not modelled.                              *)
(***************************************************************************)
EXTENDS Integers, Sequences, FiniteSets, TLC

VARIABLES
    frame,      \* per caller: the running tool call (its locals, its outcome)
    climb,      \* per caller: the locals of the running _hill_climb
    rng,        \* per caller: its random.Random instance, [seed, n draws so far]
    hashseed,   \* per caller: the string-hash randomisation of its interpreter
                \* process (equal for callers of one process)
    globals,    \* cipher_command_agent: _swarm, _cipher_agents, _SWARM_LOCK
    thread,     \* per thread: its call of get_cipher_swarm / get_cipher_agents
    entry,      \* the running call of the entrypoint strands_agent_bedrock
    hb          \* the heartbeat task of that call

vars == <<frame, climb, rng, hashseed, globals, thread, entry, hb>>

\* The state of cipher_command_agent.
command == <<globals, thread, entry, hb>>

\* Two independent callers are enough to interleave two invocations.
Callers == {1, 2}

-----------------------------------------------------------------------------
(* Bounds of the model *)

MaxLen == 3         \* longest free-form input text
MaxHashSeed == 1    \* hash randomisation seeds 0..MaxHashSeed
Restarts == 2       \* stands for the 10 attempts of simple_substitution_decoder
Iterations == 2     \* stands for the 2000 iterations of _hill_climb
SeedSpace == 4096   \* stands for the 2^32 seeds of `& 0xFFFFFFFF`
MaxThreads == 2     \* threads calling get_cipher_swarm / get_cipher_agents
MaxPings == 2       \* pings of one heartbeat task that are followed

-----------------------------------------------------------------------------
(* Characters and Python's str methods *)

Max(a, b) == IF a >= b THEN a ELSE b

\* All strings over alphabet A of length at most n.
Strings(A, n) == UNION {[1..k -> A] : k \in 0..n}

ascii_uppercase == [k \in 1..26 |-> 64 + k]     \* "ABCDEFGHIJKLMNOPQRSTUVWXYZ"
ascii_lowercase == [k \in 1..26 |-> 96 + k]     \* "abcdefghijklmnopqrstuvwxyz"
LETTERS == ascii_uppercase

\* Alphabetic characters outside ASCII that the inputs may hold:
\* U+00E9 (e acute, lower case) and U+00C9 (E acute, upper case).
NonAsciiLower == {233}
NonAsciiUpper == {201}

IsAsciiUpper(ch) == ch \in 65..90
IsAsciiLower(ch) == ch \in 97..122
IsDigit(ch) == ch \in 48..57

\* str.isspace() / regex \s on the characters of the model
IsSpace(ch) == ch \in {9, 10, 11, 12, 13, 32}

\* str.isalpha()
IsAlpha(ch) ==
    IsAsciiUpper(ch) \/ IsAsciiLower(ch) \/ ch \in NonAsciiLower \cup NonAsciiUpper

\* str.isupper() of one character
IsUpper(ch) == IsAsciiUpper(ch) \/ ch \in NonAsciiUpper

\* str.upper() / str.lower() of one character
UpperChar(ch) ==
    IF IsAsciiLower(ch) THEN ch - 32
    ELSE IF ch \in NonAsciiLower THEN ch - 32
    ELSE ch

LowerChar(ch) ==
    IF IsAsciiUpper(ch) THEN ch + 32
    ELSE IF ch \in NonAsciiUpper THEN ch + 32
    ELSE ch

Upper(s) == <<>> \o [k \in 1..Len(s) |-> UpperChar(s[k])]

\* Number of positions of s whose character is in set S.
CountIn(s, S) == Cardinality({k \in 1..Len(s) : s[k] \in S})

\* The subsequence of s of the characters in set S.
RECURSIVE Keep(_, _)
Keep(s, S) ==
    IF s = <<>> THEN <<>>
    ELSE (IF Head(s) \in S THEN <<Head(s)>> ELSE <<>>) \o Keep(Tail(s), S)

\* Index of the first element of seq equal to x, 0 when absent.
IndexOf(seq, x) ==
    IF \E k \in 1..Len(seq) : seq[k] = x
    THEN CHOOSE k \in 1..Len(seq) : seq[k] = x /\ \A m \in 1..(k-1) : seq[m] # x
    ELSE 0

\* "".join(ch for ch in s if not ch.isspace())
RECURSIVE RemoveWhitespace(_)
RemoveWhitespace(s) ==
    IF s = <<>> THEN <<>>
    ELSE IF IsSpace(Head(s)) THEN RemoveWhitespace(Tail(s))
    ELSE <<Head(s)>> \o RemoveWhitespace(Tail(s))

\* str.strip()
RECURSIVE LStrip(_)
LStrip(s) == IF s # <<>> /\ IsSpace(Head(s)) THEN LStrip(Tail(s)) ELSE s

RECURSIVE RStrip(_)
RStrip(s) ==
    IF s # <<>> /\ IsSpace(s[Len(s)]) THEN RStrip(SubSeq(s, 1, Len(s) - 1)) ELSE s

Strip(s) == RStrip(LStrip(s))

\* re.sub(r"\s+", " ", s): every maximal run of whitespace becomes one space
RECURSIVE CollapseWhitespace(_)
CollapseWhitespace(s) ==
    IF s = <<>> THEN <<>>
    ELSE IF IsSpace(Head(s)) THEN <<32>> \o CollapseWhitespace(LStrip(s))
    ELSE <<Head(s)>> \o CollapseWhitespace(Tail(s))

\* re.findall(r"[A-Z]+", s): the maximal runs of ASCII capitals, in order
RECURSIVE UpperRuns(_, _)
UpperRuns(s, run) ==
    IF s = <<>> THEN (IF run = <<>> THEN <<>> ELSE <<run>>)
    ELSE IF IsAsciiUpper(Head(s)) THEN UpperRuns(Tail(s), Append(run, Head(s)))
    ELSE (IF run = <<>> THEN <<>> ELSE <<run>>) \o UpperRuns(Tail(s), <<>>)

\* The one element of a singleton set.  {F(v) : v \in {e}} binds v to the
\* value of e, so that e is evaluated once however often F mentions v.
Once(S) == CHOOSE x \in S : TRUE

\* s starts with prefix p
StartsWith(s, p) == Len(s) >= Len(p) /\ SubSeq(s, 1, Len(p)) = p

\* What a caller receives from a call.
Return(s) == [kind |-> "return", value |-> s]
Raise(msg) == [kind |-> "raise", value |-> msg]
NoOutcome == [kind |-> "none", value |-> <<>>]

-----------------------------------------------------------------------------
(* cipher_rookie_agent.py: scoring oracle and output format *)

ETAOIN == <<69,84,65,79,73,78,83,72,82,68,76,67,85,77,87,70,71,89,80,66,86,75,74,88,81,90>>
    \* "ETAOINSHRDLCUMWFGYPBVKJXQZ"

COMMON_WORDS ==
    { <<84,72,69>>,                     \* THE
      <<65,78,68>>,                     \* AND
      <<84,72,73,83>>,                  \* THIS
      <<84,72,65,84>>,                  \* THAT
      <<70,79,82>>,                     \* FOR
      <<79,70>>,                        \* OF
      <<84,79>>,                        \* TO
      <<73,78>>,                        \* IN
      <<79,78>>,                        \* ON
      <<87,73,84,72>>,                  \* WITH
      <<76,76,65,77,65>>,               \* LLAMA
      <<76,76,65,77,65,83>>,            \* LLAMAS
      <<85,78,73,67,79,82,78>>,         \* UNICORN
      <<85,78,73,67,79,82,78,83>>,      \* UNICORNS
      <<77,73,83,83,73,79,78>>,         \* MISSION
      <<83,69,67,82,69,84>>,            \* SECRET
      <<77,69,83,83,65,71,69>>,         \* MESSAGE
      <<66,65,83,69>>,                  \* BASE
      <<77,79,85,78,84,65,73,78>>,      \* MOUNTAIN
      <<65,84,84,65,67,75>>,            \* ATTACK
      <<82,69,78,68,69,90,86,79,85,83>>,\* RENDEZVOUS
      <<65,71,69,78,84>>,               \* AGENT
      <<72,73,68,68,69,78>>,            \* HIDDEN
      <<68,65,78,71,69,82>>,            \* DANGER
      <<69,86,73,76>>,                  \* EVIL
      <<67,79,68,69>>,                  \* CODE
      <<65,76,69,82,84>>,               \* ALERT
      <<85,78,73,84,83>>,               \* UNITS
      <<71,85,65,82,68>>,               \* GUARD
      <<69,65,83,84>>,                  \* EAST
      <<87,69,83,84>>,                  \* WEST
      <<78,79,82,84,72>>,               \* NORTH
      <<83,79,85,84,72>>,               \* SOUTH
      <<72,73,76,76,83>>,               \* HILLS
      <<83,85,77,77,73,84>>,            \* SUMMIT
      <<84,72,69,73,82>>,               \* THEIR
      <<70,82,79,77>>,                  \* FROM
      <<87,72,69,78>>,                  \* WHEN
      <<87,72,69,82,69>>,               \* WHERE
      <<65,82,69>>,                     \* ARE
      <<73,83>> }                       \* IS

DECODED_LABEL == <<68,69,67,79,68,69,68>>       \* "DECODED"
DECODED_PREFIX == DECODED_LABEL \o <<58, 32>>   \* "DECODED: "

\* _format_decoded: f"{label}: {cleaned.upper()}", cleaned = strip + collapse
FormatDecoded(result, label) ==
    Once({Once({label \o <<58, 32>> \o Upper(collapsed) :
                  collapsed \in {CollapseWhitespace(stripped)}}) :
            stripped \in {Strip(result)}})

\* Scores: the rational num/den with den > 0; -math.inf is -1/0.
NegInf == [num |-> -1, den |-> 0]

\* a > b on scores (cross-multiplication; -1/0 is below every score)
ScoreGT(a, b) == a.num * b.den > b.num * a.den

ScoreEQ(a, b) == a.num * b.den = b.num * a.den

\* _score_plaintext: hits*20 + vowels/max(len,1)*10 + spaces - 0.5*|QXZJ|,
\* kept over the common denominator 2*max(len,1).
ScorePlaintext(text) ==
    LET uppercase == Upper(text)
        words == UpperRuns(uppercase, <<>>)
        hits == Cardinality({k \in 1..Len(words) : words[k] \in COMMON_WORDS})
        L == Max(Len(uppercase), 1)
        vowels == CountIn(uppercase, {65, 69, 73, 79, 85})      \* "AEIOU"
        space_bonus == CountIn(uppercase, {32})
        penalty2 == CountIn(uppercase, {81, 88, 90, 74})        \* "QXZJ", halves
    IN  [num |-> 2 * L * (hits * 20 + space_bonus) + 20 * vowels - L * penalty2,
         den |-> 2 * L]

-----------------------------------------------------------------------------
(* cipher_rookie_agent.py: Caesar *)

\* _shift_character: alphabet.index(ch) raises ValueError for an alphabetic
\* character that is in neither ASCII alphabet.
ShiftCharacter(ch, shift) ==
    IF IsAlpha(ch)
    THEN LET alphabet == IF IsUpper(ch) THEN ascii_uppercase ELSE ascii_lowercase
             idx == IndexOf(alphabet, ch) - 1
         IN  IF idx < 0 THEN [raised |-> TRUE, ch |-> ch]
             ELSE [raised |-> FALSE, ch |-> alphabet[((idx + shift) % 26) + 1]]
    ELSE [raised |-> FALSE, ch |-> ch]

SubstringNotFound == <<115,117,98,115,116,114,105,110,103,32,110,111,116,32,102,111,117,110,100>>
    \* "substring not found"

\* _decode_caesar: the joined shifted characters, or the ValueError
DecodeCaesar(text, shift) ==
    IF \E k \in 1..Len(text) : ShiftCharacter(text[k], shift).raised
    THEN Raise(SubstringNotFound)
    ELSE Return([k \in 1..Len(text) |-> ShiftCharacter(text[k], shift).ch])

-----------------------------------------------------------------------------
(* cipher_rookie_agent.py: Atbash *)

ChrOutOfRange == <<99,104,114,40,41,32,97,114,103,32,110,111,116,32,105,110,32,114,97,110,103,101,40,48,120,49,49,48,48,48,48,41>>
    \* "chr() arg not in range(0x110000)"

\* atbash_cipher_decoder.decode_char: chr() raises ValueError below 0
AtbashChar(ch) ==
    IF IsAlpha(ch)
    THEN LET base == IF IsUpper(ch) THEN 65 ELSE 97
             mirrored == 25 - (UpperChar(ch) - 65)
         IN  IF base + mirrored < 0 \/ base + mirrored > 1114111
             THEN [raised |-> TRUE, ch |-> ch]
             ELSE [raised |-> FALSE, ch |-> base + mirrored]
    ELSE [raised |-> FALSE, ch |-> ch]

\* atbash_cipher_decoder: no try/except around the transform
AtbashCipherDecoder(encrypted_text) ==
    IF \E k \in 1..Len(encrypted_text) : AtbashChar(encrypted_text[k]).raised
    THEN Raise(ChrOutOfRange)
    ELSE Return(FormatDecoded([k \in 1..Len(encrypted_text) |->
                                  AtbashChar(encrypted_text[k]).ch], DECODED_LABEL))

-----------------------------------------------------------------------------
(* cipher_rookie_agent.py: substitution solver *)

\* A key is a sequence of 26 entries, key[k] the plaintext letter of the
\* k-th cipher letter; 0 stands for the empty slot "".

\* counts[letter] for the letters of LETTERS, in order, over ciphertext.upper()
RECURSIVE LetterCounts(_, _)
LetterCounts(uppercase, n) ==
    IF n = 0 THEN <<>>
    ELSE Append(LetterCounts(uppercase, n - 1), CountIn(uppercase, {LETTERS[n]}))

\* Position (1..26) of LETTERS[k] in sorted(LETTERS, key=counts, reverse=True):
\* higher counts first, equal counts in alphabet order (the sort is stable).
FrequencyRank(counts, k) ==
    1 + Cardinality({m \in 1..26 : counts[m] > counts[k]
                                   \/ (counts[m] = counts[k] /\ m < k)})

\* list(ETAOIN) + [letter for letter in LETTERS if letter not in ETAOIN]
PlaintextOrder ==
    ETAOIN \o Keep(LETTERS, {LETTERS[k] : k \in 1..26} \ {ETAOIN[k] : k \in 1..Len(ETAOIN)})

\* _build_initial_key: the k-th most frequent cipher letter gets the k-th
\* letter of the plaintext order; slots the zip left empty are filled, in
\* index order, with the letters not used yet.
BuildInitialKey(ciphertext) ==
    LET Zipped(counts) ==
            <<>> \o [k \in 1..26 |->
                       IF FrequencyRank(counts, k) <= Len(PlaintextOrder)
                       THEN PlaintextOrder[FrequencyRank(counts, k)] ELSE 0]
        Remaining(zipped) ==
            Keep(LETTERS, {LETTERS[k] : k \in 1..26} \ {zipped[k] : k \in 1..26})
        Filled(zipped, remaining) ==
            LET empties(k) == Cardinality({m \in 1..k : zipped[m] = 0})
            IN  <<>> \o [k \in 1..26 |->
                           IF zipped[k] = 0 THEN remaining[empties(k)] ELSE zipped[k]]
    IN  Once({Once({Once({Filled(zipped, remaining) :
                            remaining \in {Remaining(zipped)}}) :
                      zipped \in {Zipped(counts)}}) :
                counts \in {LetterCounts(Upper(ciphertext), 26)}})

\* _decrypt_with_key: letters of the table are replaced, in the case of the
\* ciphertext letter; every other character passes through.
DecryptChar(key, ch) ==
    LET idx == IndexOf(LETTERS, UpperChar(ch))
    IN  IF idx = 0 THEN ch
        ELSE IF IsUpper(ch) THEN key[idx] ELSE LowerChar(key[idx])

DecryptWithKey(key, text) == <<>> \o [k \in 1..Len(text) |-> DecryptChar(key, text[k])]

\* Mutant of SwapKeyPositions: the second assignment reads the overwritten
\* slot, so both positions end with the same letter.
SwapKeyPositionsClobber(key, i, j) == [key EXCEPT ![i] = key[j]]

\* _swap_key_positions (positions counted from 1)
SwapKeyPositions(key, i, j) == [key EXCEPT ![i] = key[j], ![j] = key[i]]

-----------------------------------------------------------------------------
(* pattern_detective_agent.py: Morse *)

MORSE_TO_CHAR ==
    <<46,45>> :> 65 @@              \* .-    A
    <<45,46,46,46>> :> 66 @@        \* -...  B
    <<45,46,45,46>> :> 67 @@        \* -.-.  C
    <<45,46,46>> :> 68 @@           \* -..   D
    <<46>> :> 69 @@                 \* .     E
    <<46,46,45,46>> :> 70 @@        \* ..-.  F
    <<45,45,46>> :> 71 @@           \* --.   G
    <<46,46,46,46>> :> 72 @@        \* ....  H
    <<46,46>> :> 73 @@              \* ..    I
    <<46,45,45,45>> :> 74 @@        \* .---  J
    <<45,46,45>> :> 75 @@           \* -.-   K
    <<46,45,46,46>> :> 76 @@        \* .-..  L
    <<45,45>> :> 77 @@              \* --    M
    <<45,46>> :> 78 @@              \* -.    N
    <<45,45,45>> :> 79 @@           \* ---   O
    <<46,45,45,46>> :> 80 @@        \* .--.  P
    <<45,45,46,45>> :> 81 @@        \* --.-  Q
    <<46,45,46>> :> 82 @@           \* .-.   R
    <<46,46,46>> :> 83 @@           \* ...   S
    <<45>> :> 84 @@                 \* -     T
    <<46,46,45>> :> 85 @@           \* ..-   U
    <<46,46,46,45>> :> 86 @@        \* ...-  V
    <<46,45,45>> :> 87 @@           \* .--   W
    <<45,46,46,45>> :> 88 @@        \* -..-  X
    <<45,46,45,45>> :> 89 @@        \* -.--  Y
    <<45,45,46,46>> :> 90 @@        \* --..  Z
    <<45,45,45,45,45>> :> 48 @@     \* ----- 0
    <<46,45,45,45,45>> :> 49 @@     \* .---- 1
    <<46,46,45,45,45>> :> 50 @@     \* ..--- 2
    <<46,46,46,45,45>> :> 51 @@     \* ...-- 3
    <<46,46,46,46,45>> :> 52 @@     \* ....- 4
    <<46,46,46,46,46>> :> 53 @@     \* ..... 5
    <<45,46,46,46,46>> :> 54 @@     \* -.... 6
    <<45,45,46,46,46>> :> 55 @@     \* --... 7
    <<45,45,45,46,46>> :> 56 @@     \* ---.. 8
    <<45,45,45,45,46>> :> 57        \* ----. 9

\* str.replace(old, new): non-overlapping occurrences, left to right
RECURSIVE Replace(_, _, _)
Replace(s, old, new) ==
    IF s = <<>> THEN <<>>
    ELSE IF StartsWith(s, old)
         THEN new \o Replace(SubSeq(s, Len(old) + 1, Len(s)), old, new)
         ELSE <<Head(s)>> \o Replace(Tail(s), old, new)

\* str.split(): the maximal runs of non-whitespace, in order
RECURSIVE Split(_, _)
Split(s, tok) ==
    IF s = <<>> THEN (IF tok = <<>> THEN <<>> ELSE <<tok>>)
    ELSE IF IsSpace(Head(s))
         THEN (IF tok = <<>> THEN <<>> ELSE <<tok>>) \o Split(Tail(s), <<>>)
         ELSE Split(Tail(s), Append(tok, Head(s)))

\* Mutant of NormalizeMorseInput: two spaces already make a word boundary.
NormalizeMorseInputTwoSpaces(encrypted_text) ==
    LET n1 == Replace(Strip(encrypted_text), <<124>>, <<47>>)
        n2 == Replace(n1, <<32, 32>>, <<32, 47, 32>>)
        n3 == Replace(n2, <<47>>, <<32, 47, 32>>)
    IN  Split(n3, <<>>)

\* _normalize_morse_input: "|" -> "/", "   " -> " / ", "/" -> " / ", split
NormalizeMorseInput(encrypted_text) ==
    LET n1 == Replace(Strip(encrypted_text), <<124>>, <<47>>)
        n2 == Replace(n1, <<32, 32, 32>>, <<32, 47, 32>>)
        n3 == Replace(n2, <<47>>, <<32, 47, 32>>)
    IN  Split(n3, <<>>)

UNKNOWN_MORSE == <<85,110,107,110,111,119,110,32,77,111,114,115,101,32,115,121,109,98,111,108,58,32>>
    \* "Unknown Morse symbol: "

\* Mutant of DecodeMorseTokens: a token without a table entry is skipped.
RECURSIVE DecodeMorseTokensSkipping(_, _)
DecodeMorseTokensSkipping(tokens, decoded_chars) ==
    IF tokens = <<>> THEN Return(decoded_chars)
    ELSE LET token == Head(tokens)
         IN  IF token = <<47>>
             THEN DecodeMorseTokensSkipping(Tail(tokens), Append(decoded_chars, 32))
             ELSE IF token \notin DOMAIN MORSE_TO_CHAR
             THEN DecodeMorseTokensSkipping(Tail(tokens), decoded_chars)
             ELSE DecodeMorseTokensSkipping(Tail(tokens),
                                            Append(decoded_chars, MORSE_TO_CHAR[token]))

\* The loop of _decode_morse over the tokens left, decoded_chars so far:
\* "/" appends a space, a table entry appends its character, anything else
\* raises ValueError naming the token.
RECURSIVE DecodeMorseTokens(_, _)
DecodeMorseTokens(tokens, decoded_chars) ==
    IF tokens = <<>> THEN Return(decoded_chars)
    ELSE LET token == Head(tokens)
         IN  IF token = <<47>>
             THEN DecodeMorseTokens(Tail(tokens), Append(decoded_chars, 32))
             ELSE IF token \notin DOMAIN MORSE_TO_CHAR
             THEN Raise(UNKNOWN_MORSE \o token)
             ELSE DecodeMorseTokens(Tail(tokens),
                                    Append(decoded_chars, MORSE_TO_CHAR[token]))

\* _decode_morse
DecodeMorse(encrypted_text) ==
    LET r == DecodeMorseTokens(NormalizeMorseInput(encrypted_text), <<>>)
    IN  IF r.kind = "raise" THEN r
        ELSE Return(Strip(CollapseWhitespace(r.value)))

\* _format_decoded_text
FormatDecodedText(text) ==
    Once({Once({Upper(collapsed) : collapsed \in {CollapseWhitespace(stripped)}}) :
            stripped \in {Strip(text)}})

ERROR_MORSE == <<69,114,114,111,114,32,100,101,99,111,100,105,110,103,32,77,111,114,115,101,32,99,111,100,101,58,32>>
    \* "Error decoding Morse code: "

\* morse_code_decoder: every exception becomes the error string
MorseCodeDecoder(encrypted_text) ==
    LET decoded == DecodeMorse(encrypted_text)
    IN  IF decoded.kind = "raise" THEN Return(ERROR_MORSE \o decoded.value)
        ELSE Return(DECODED_PREFIX \o FormatDecodedText(decoded.value))

-----------------------------------------------------------------------------
(* pattern_detective_agent.py: Polybius *)

\* POLYBIUS_SQUARE: rows and columns 1..5, I and J sharing 24.  The key
\* "24/I" is in the table as well, mapped to "J".
POLYBIUS_SQUARE ==
    [token \in {<<48 + r, 48 + col>> : r \in 1..5, col \in 1..5} \cup {<<50, 52, 47, 73>>} |->
        IF Len(token) = 4 THEN 74
        ELSE LET cell == 5 * (token[1] - 49) + (token[2] - 49)     \* 0..24
             IN  IF cell <= 8 THEN 65 + cell ELSE 66 + cell]

\* re.sub(r"[^0-9\s]", " ", s)
NonDigitsToSpaces(s) ==
    [k \in 1..Len(s) |-> IF IsDigit(s[k]) \/ IsSpace(s[k]) THEN s[k] ELSE 32]

\* _normalize_polybius_input
NormalizePolybiusInput(encrypted_text) ==
    LET cleaned == Replace(Replace(encrypted_text, <<44>>, <<32>>), <<47>>, <<32>>)
    IN  Split(NonDigitsToSpaces(cleaned), <<>>)

UNKNOWN_COORDINATE == <<85,110,107,110,111,119,110,32,99,111,111,114,100,105,110,97,116,101,58,32>>
    \* "Unknown coordinate: "

\* The loop of polybius_square_decoder: "24" is I, a table entry is its
\* letter, anything else raises ValueError naming the token.
RECURSIVE DecodePolybiusTokens(_, _)
DecodePolybiusTokens(tokens, decoded_chars) ==
    IF tokens = <<>> THEN Return(decoded_chars)
    ELSE LET token == Head(tokens)
         IN  IF token = <<50, 52>>
             THEN DecodePolybiusTokens(Tail(tokens), Append(decoded_chars, 73))
             ELSE IF token \notin DOMAIN POLYBIUS_SQUARE
             THEN Raise(UNKNOWN_COORDINATE \o token)
             ELSE DecodePolybiusTokens(Tail(tokens),
                                       Append(decoded_chars, POLYBIUS_SQUARE[token]))

ERROR_POLYBIUS == <<69,114,114,111,114,32,100,101,99,111,100,105,110,103,32,80,111,108,121,98,105,117,115,32,115,113,117,97,114,101,58,32>>
    \* "Error decoding Polybius square: "

\* polybius_square_decoder
PolybiusSquareDecoder(encrypted_text) ==
    LET r == DecodePolybiusTokens(NormalizePolybiusInput(encrypted_text), <<>>)
    IN  IF r.kind = "raise" THEN Return(ERROR_POLYBIUS \o r.value)
        ELSE Return(DECODED_PREFIX \o FormatDecodedText(r.value))

-----------------------------------------------------------------------------
(* pattern_detective_agent.py: Rail Fence *)

\* The list COMMON_PATTERN_WORDS, in source order ("LLAMA" is listed twice).
COMMON_PATTERN_WORDS ==
    << <<76,76,65,77,65>>,                  \* LLAMA
       <<76,76,65,77,65,83>>,               \* LLAMAS
       <<85,78,73,67,79,82,78>>,            \* UNICORN
       <<85,78,73,67,79,82,78,83>>,         \* UNICORNS
       <<72,73,68,73,78,71>>,               \* HIDING
       <<72,73,68,69>>,                     \* HIDE
       <<72,73,68,68,69,78>>,               \* HIDDEN
       <<73,78>>,                           \* IN
       <<77,79,85,78,84,65,73,78>>,         \* MOUNTAIN
       <<66,65,83,69>>,                     \* BASE
       <<84,87,69,78,84,89>>,               \* TWENTY
       <<84,72,82,69,69>>,                  \* THREE
       <<67,79,68,69>>,                     \* CODE
       <<80,65,84,84,69,82,78>>,            \* PATTERN
       <<83,69,67,82,69,84>>,               \* SECRET
       <<77,69,83,83,65,71,69>>,            \* MESSAGE
       <<65,84,84,65,67,75>>,               \* ATTACK
       <<67,79,79,82,68,73,78,65,84,69,83>>,\* COORDINATES
       <<69,86,73,76>>,                     \* EVIL
       <<76,76,65,77,65>>,                  \* LLAMA
       <<83,89,78,68,73,67,65,84,69>>,      \* SYNDICATE
       <<78,79,82,84,72>>,                  \* NORTH
       <<83,79,85,84,72>>,                  \* SOUTH
       <<69,65,83,84>>,                     \* EAST
       <<87,69,83,84>>,                     \* WEST
       <<72,73,76,76,83>>,                  \* HILLS
       <<83,85,77,77,73,84>>,               \* SUMMIT
       <<82,69,78,68,69,90,86,79,85,83>> >> \* RENDEZVOUS

\* The loop of _rail_pattern with num_chars positions left, at `rail`
\* heading `direction`: append, turn at rail 0 and at the last rail, move.
RECURSIVE RailPatternFrom(_, _, _, _)
RailPatternFrom(num_chars, rails, rail, direction) ==
    IF num_chars = 0 THEN <<>>
    ELSE LET turned == IF rail = 0 THEN 1
                       ELSE IF rail = rails - 1 THEN -1
                       ELSE direction
         IN  <<rail>> \o RailPatternFrom(num_chars - 1, rails, rail + turned, turned)

\* Mutant of RailPattern: the rail restarts at 0 after the last rail.
RailPatternSawtooth(num_chars, rails) == [k \in 1..num_chars |-> (k - 1) % rails]

\* _rail_pattern
RailPattern(num_chars, rails) == RailPatternFrom(num_chars, rails, 0, 1)

\* Mutant of RailDegenerate: the test on rails <= 1 is dropped.
RailDegenerateUpperOnly(rails, length) == rails >= length

\* if rails <= 1 or rails >= length: return cleaned
RailDegenerate(rails, length) == rails <= 1 \/ rails >= length

KeyErrorMessage == <<75,101,121,69,114,114,111,114>>     \* the KeyError of rail_chunks[rail_index]

\* _rail_fence_decode: the characters of the whitespace-free text are cut
\* into one chunk per rail (chunk lengths = occurrences of the rail in the
\* pattern, ascending rail order) and read back along the pattern.
\* _rail_fence_decode past the degenerate case, with cleaned and pattern computed.
RailFenceRead(cleaned, pattern, rails) ==
    LET length == Len(cleaned)
        \* index of the first character of the chunk of rail r, minus one
        start(r) == Cardinality({k \in 1..length : pattern[k] < r /\ pattern[k] >= 0})
        \* rail_positions[r] when position k is read
        pos(k) == Cardinality({m \in 1..(k - 1) : pattern[m] = pattern[k]})
    IN  IF \E k \in 1..length : pattern[k] \notin 0..(rails - 1)
        THEN Raise(KeyErrorMessage)
        ELSE Return([k \in 1..length |-> cleaned[start(pattern[k]) + pos(k) + 1]])

RailFenceDecode(cipher_text, rails) ==
    Once({IF RailDegenerate(rails, Len(cleaned)) THEN Return(cleaned)
          ELSE Once({RailFenceRead(cleaned, pattern, rails) :
                       pattern \in {RailPattern(Len(cleaned), rails)}}) :
            cleaned \in {RemoveWhitespace(cipher_text)}})

\* word in uppercase (substring test)
Contains(s, word) ==
    \E k \in 1..(Len(s) - Len(word) + 1) : SubSeq(s, k, k + Len(word) - 1) = word

\* s.startswith(word, i), i counted from 0
StartsWithAt(s, word, i) ==
    i + Len(word) <= Len(s) /\ SubSeq(s, i + 1, i + Len(word)) = word

\* _score_candidate: len(word)^2 for each listed word found in the candidate
RECURSIVE ScoreWords(_, _)
ScoreWords(uppercase, words) ==
    IF words = <<>> THEN 0
    ELSE (IF Head(words) # <<>> /\ Contains(uppercase, Head(words))
          THEN Len(Head(words)) * Len(Head(words)) ELSE 0)
         + ScoreWords(uppercase, Tail(words))

ScoreCandidate(candidate) == ScoreWords(Upper(candidate), COMMON_PATTERN_WORDS)

\* The dictionary words that start at position i of the text.
WordsAt(uppercase, i) ==
    {COMMON_PATTERN_WORDS[k] : k \in {m \in 1..Len(COMMON_PATTERN_WORDS) :
                                        StartsWithAt(uppercase, COMMON_PATTERN_WORDS[m], i)}}

\* The first word of the dictionary (longest first) that starts at i.
LongestWordAt(uppercase, i) ==
    CHOOSE w \in WordsAt(uppercase, i) : \A v \in WordsAt(uppercase, i) : Len(v) <= Len(w)

\* The inner loop of _auto_space: the first j >= i where a word starts, or n.
RECURSIVE NextWordStart(_, _)
NextWordStart(uppercase, j) ==
    IF j >= Len(uppercase) \/ WordsAt(uppercase, j) # {} THEN j
    ELSE NextWordStart(uppercase, j + 1)

\* The outer loop of _auto_space from position i (counted from 0).
RECURSIVE AutoSpaceFrom(_, _)
AutoSpaceFrom(uppercase, i) ==
    IF i >= Len(uppercase) THEN <<>>
    ELSE IF WordsAt(uppercase, i) # {}
    THEN LET match == LongestWordAt(uppercase, i)
         IN  <<match>> \o AutoSpaceFrom(uppercase, i + Len(match))
    ELSE LET j == NextWordStart(uppercase, i)
             chunk == IF j > i THEN SubSeq(uppercase, i + 1, j) ELSE <<uppercase[i + 1]>>
         IN  <<chunk>> \o AutoSpaceFrom(uppercase, Max(j, i + 1))

\* " ".join(words)
RECURSIVE JoinWithSpaces(_)
JoinWithSpaces(words) ==
    IF words = <<>> THEN <<>>
    ELSE IF Len(words) = 1 THEN Head(words)
    ELSE Head(words) \o <<32>> \o JoinWithSpaces(Tail(words))

\* _auto_space
AutoSpace(text) ==
    Strip(CollapseWhitespace(JoinWithSpaces(AutoSpaceFrom(Upper(text), 0))))

\* Mutant of AutoSpaceNext: an unmatched span leaves the position where it is.
AutoSpaceNextStalls(uppercase, i) ==
    IF WordsAt(uppercase, i) # {} THEN i + Len(LongestWordAt(uppercase, i)) ELSE i

\* One pass of the outer loop of _auto_space at position i: the new i,
\* i += len(match) or i = max(j, i + 1) ...
AutoSpaceNext(uppercase, i) ==
    IF WordsAt(uppercase, i) # {} THEN i + Len(LongestWordAt(uppercase, i))
    ELSE Max(NextWordStart(uppercase, i), i + 1)

\* ... and the word or chunk appended to result_words.
AutoSpaceToken(uppercase, i) ==
    IF WordsAt(uppercase, i) # {} THEN LongestWordAt(uppercase, i)
    ELSE IF NextWordStart(uppercase, i) > i
    THEN SubSeq(uppercase, i + 1, NextWordStart(uppercase, i))
    ELSE <<uppercase[i + 1]>>

\* The loop of rail_fence_decoder over rails..6 with the best so far.
RECURSIVE BestRailCandidate(_, _, _, _)
BestRailCandidate(cleaned_input, rails, best_candidate, best_score) ==
    IF rails > 6 THEN Return(best_candidate)
    ELSE LET candidate == RailFenceDecode(cleaned_input, rails)
             score == ScoreCandidate(candidate.value)
         IN  IF candidate.kind = "raise" THEN candidate
             ELSE IF score > best_score
             THEN BestRailCandidate(cleaned_input, rails + 1, candidate.value, score)
             ELSE BestRailCandidate(cleaned_input, rails + 1, best_candidate, best_score)

ERROR_RAIL_FENCE == <<69,114,114,111,114,32,100,101,99,111,100,105,110,103,32,82,97,105,108,32,70,101,110,99,101,32,99,105,112,104,101,114,58,32>>
    \* "Error decoding Rail Fence cipher: "

\* rail_fence_decoder
RailFenceDecoder(encrypted_text) ==
    LET cleaned_input == Strip(encrypted_text)
        best == BestRailCandidate(cleaned_input, 2, cleaned_input, -1)
    IN  IF best.kind = "raise" THEN Return(ERROR_RAIL_FENCE \o best.value)
        ELSE Return(DECODED_PREFIX \o FormatDecodedText(AutoSpace(best.value)))

-----------------------------------------------------------------------------
(* steganography_hunter_agent.py: A1Z26 *)

\* _format_result
FormatResult(message) == Upper(CollapseWhitespace(Strip(message)))

\* The longest prefix of s made of digits.
RECURSIVE DigitRun(_)
DigitRun(s) ==
    IF s # <<>> /\ IsDigit(Head(s)) THEN <<Head(s)>> \o DigitRun(Tail(s)) ELSE <<>>

\* _tokenize_numbers: re.findall(r"-?\d+", text), leftmost matches in order
RECURSIVE TokenizeNumbers(_)
TokenizeNumbers(text) ==
    IF text = <<>> THEN <<>>
    ELSE IF Head(text) = 45 /\ DigitRun(Tail(text)) # <<>>
    THEN LET token == <<45>> \o DigitRun(Tail(text))
         IN  <<token>> \o TokenizeNumbers(SubSeq(text, Len(token) + 1, Len(text)))
    ELSE IF DigitRun(text) # <<>>
    THEN LET token == DigitRun(text)
         IN  <<token>> \o TokenizeNumbers(SubSeq(text, Len(token) + 1, Len(text)))
    ELSE TokenizeNumbers(Tail(text))

\* int() of a digit run
RECURSIVE DigitsValue(_)
DigitsValue(digits) ==
    IF digits = <<>> THEN 0
    ELSE 10 * DigitsValue(SubSeq(digits, 1, Len(digits) - 1)) + (digits[Len(digits)] - 48)

\* int(token)
IntOf(token) ==
    IF Head(token) = 45 THEN 0 - DigitsValue(Tail(token)) ELSE DigitsValue(token)

\* What _try_a1z26 gives for the absent result (None).
None == [none |-> TRUE, value |-> <<>>]
Some(s) == [none |-> FALSE, value |-> s]

\* Mutant of TryA1Z26Tokens: a value outside 0..26 is skipped.
RECURSIVE TryA1Z26TokensLenient(_, _)
TryA1Z26TokensLenient(tokens, decoded_chars) ==
    IF tokens = <<>>
    THEN (IF decoded_chars # <<>> THEN Some(decoded_chars) ELSE None)
    ELSE LET value == IntOf(Head(tokens))
         IN  IF value = 0
             THEN TryA1Z26TokensLenient(Tail(tokens), Append(decoded_chars, 32))
             ELSE IF 1 <= value /\ value <= 26
             THEN TryA1Z26TokensLenient(Tail(tokens), Append(decoded_chars, 65 + value - 1))
             ELSE TryA1Z26TokensLenient(Tail(tokens), decoded_chars)

\* The loop of _try_a1z26: 0 is a space, 1..26 a letter, anything else
\* returns None at once.
RECURSIVE TryA1Z26Tokens(_, _)
TryA1Z26Tokens(tokens, decoded_chars) ==
    IF tokens = <<>>
    THEN (IF decoded_chars # <<>> THEN Some(decoded_chars) ELSE None)
    ELSE LET value == IntOf(Head(tokens))
         IN  IF value = 0
             THEN TryA1Z26Tokens(Tail(tokens), Append(decoded_chars, 32))
             ELSE IF 1 <= value /\ value <= 26
             THEN TryA1Z26Tokens(Tail(tokens), Append(decoded_chars, 65 + value - 1))
             ELSE None

\* _try_a1z26
TryA1Z26(tokens) == TryA1Z26Tokens(tokens, <<>>)

NO_VALID_ENCODING == <<78,79,32,86,65,76,73,68,32,69,78,67,79,68,73,78,71,32,68,69,84,69,67,84,69,68>>
    \* "NO VALID ENCODING DETECTED"

\* numeric_encoding_decoder (the digit runs of the model are short, so int()
\* never raises)
NumericEncodingDecoder(text) ==
    LET tokens == TokenizeNumbers(text)
        a1z26 == TryA1Z26(tokens)
    IN  IF tokens = <<>> THEN Return(NO_VALID_ENCODING)
        ELSE IF ~a1z26.none /\ a1z26.value # <<>>
        THEN Return(DECODED_PREFIX \o FormatResult(a1z26.value))
        ELSE Return(NO_VALID_ENCODING)

-----------------------------------------------------------------------------
(* steganography_hunter_agent.py: acrostic *)

\* The pieces of s between the characters of set seps (empty pieces kept);
\* str.splitlines() and re.split(r"[.!?]+", s) up to empty pieces, which
\* every caller drops.
RECURSIVE SplitOn(_, _, _)
SplitOn(s, seps, piece) ==
    IF s = <<>> THEN <<piece>>
    ELSE IF Head(s) \in seps THEN <<piece>> \o SplitOn(Tail(s), seps, <<>>)
    ELSE SplitOn(Tail(s), seps, Append(piece, Head(s)))

LineBreaks == {10, 11, 12, 13}          \* \n \v \f \r
SentenceEnds == {46, 33, 63}            \* . ! ?

AsciiLetters == (65..90) \cup (97..122)         \* [A-Za-z]
AsciiAlnum == AsciiLetters \cup (48..57)        \* [A-Za-z0-9]

\* [piece.strip()[0] for piece in pieces if piece.strip()], joined
RECURSIVE FirstStripped(_)
FirstStripped(pieces) ==
    IF pieces = <<>> THEN <<>>
    ELSE (IF Strip(Head(pieces)) # <<>> THEN <<Head(Strip(Head(pieces)))>> ELSE <<>>)
         \o FirstStripped(Tail(pieces))

\* _first_letters_of_lines
FirstLettersOfLines(text) == FirstStripped(SplitOn(text, LineBreaks, <<>>))

\* words[0][0] of each line with a word, words = re.findall(r"[A-Za-z0-9]+", line)
RECURSIVE FirstAlnums(_)
FirstAlnums(lines) ==
    IF lines = <<>> THEN <<>>
    ELSE (IF Keep(Head(lines), AsciiAlnum) # <<>>
          THEN <<Head(Keep(Head(lines), AsciiAlnum))>> ELSE <<>>)
         \o FirstAlnums(Tail(lines))

\* _first_letters_of_words
FirstLettersOfWords(text) == FirstAlnums(SplitOn(text, LineBreaks, <<>>))

\* _first_letters_of_sentences
FirstLettersOfSentences(text) == FirstStripped(SplitOn(text, SentenceEnds, <<>>))

\* Mutant of PickAcrosticCandidate: a later candidate with letters wins.
RECURSIVE PickAcrosticCandidateLast(_)
PickAcrosticCandidateLast(candidates) ==
    IF candidates = <<>> THEN None
    ELSE LET cleaned == Keep(Head(candidates), AsciiLetters)
             later == PickAcrosticCandidateLast(Tail(candidates))
         IN  IF ~later.none THEN later
             ELSE IF cleaned # <<>> THEN Some(cleaned)
             ELSE None

\* _pick_acrostic_candidate: the first candidate with letters, letters only
RECURSIVE PickAcrosticCandidate(_)
PickAcrosticCandidate(candidates) ==
    IF candidates = <<>> THEN None
    ELSE LET cleaned == Keep(Head(candidates), AsciiLetters)
         IN  IF cleaned # <<>> THEN Some(cleaned)
             ELSE PickAcrosticCandidate(Tail(candidates))

NO_HIDDEN_MESSAGE == <<78,79,32,72,73,68,68,69,78,32,77,69,83,83,65,71,69,32,68,69,84,69,67,84,69,68>>
    \* "NO HIDDEN MESSAGE DETECTED"

\* acrostic_detector
AcrosticDetector(text) ==
    LET candidates == <<FirstLettersOfLines(text), FirstLettersOfWords(text),
                        FirstLettersOfSentences(text)>>
        message == PickAcrosticCandidate(candidates)
    IN  IF ~message.none THEN Return(DECODED_PREFIX \o FormatResult(message.value))
        ELSE Return(NO_HIDDEN_MESSAGE)

-----------------------------------------------------------------------------
(* The call boundary: each caller runs one tool call at a time *)

\* `plain` is caller-side: the text a caller enciphered to obtain `input`.
IdleFrame ==
    [pc |-> "idle", decoder |-> "none", input |-> <<>>, rails |-> 0, plain |-> <<>>,
     index |-> 0, best_plain |-> <<>>, best_score |-> NegInf, result_words |-> <<>>,
     outcome |-> NoOutcome]

IdleClimb ==
    [phase |-> "off", iter |-> 0, key |-> <<>>, swapped_key |-> <<>>,
     best_plain |-> <<>>, best_score |-> NegInf,
     candidate_plain |-> <<>>, candidate_score |-> NegInf]

FreshRng == [seed |-> 0, n |-> 0]

\* cipher_command_agent at import: _swarm = None, _cipher_agents = None, the
\* lock free (0), nothing constructed; a swarm instance is a positive number.
Threads == 1..MaxThreads

\* A dict of agents by its keys; None is not a dict.
NoAgents == [is_none |-> TRUE, keys |-> {}]
AgentsDict(keys) == [is_none |-> FALSE, keys |-> keys]

InitialGlobals == [swarm |-> 0, agents |-> NoAgents, lock |-> 0, constructed |-> 0]

NoResult == [kind |-> "none", swarm |-> 0, agents |-> NoAgents]

IdleThread == [pc |-> "idle", op |-> "none", swarm_instance |-> 0, result |-> NoResult]

IdleEntry == [pc |-> "idle", prompt |-> "", context |-> "None", ping_task |-> FALSE,
              result |-> [kind |-> "none", value |-> ""]]

NoHeartbeat == [state |-> "none", cancel_requested |-> FALSE, pings |-> 0, failed |-> 0]

Init ==
    /\ frame = [c \in Callers |-> IdleFrame]
    /\ climb = [c \in Callers |-> IdleClimb]
    /\ rng = [c \in Callers |-> FreshRng]
    /\ hashseed \in [Callers -> 0..MaxHashSeed]
    /\ globals = InitialGlobals
    /\ thread = [t \in Threads |-> IdleThread]
    /\ entry = IdleEntry
    /\ hb = NoHeartbeat

\* One process is enough when the seed does not decide the draws.
InitOneProcess == Init /\ hashseed = [c \in Callers |-> 0]

\* A caller may start a call when it is not inside one.
Callable(c) == frame[c].pc = "idle"

\* The frame of a call that ended with `outcome`.
Done(f, outcome) == [f EXCEPT !.pc = "done", !.outcome = outcome]

\* A one-shot tool: the whole call is one step.
Apply(c, name, text, outcome) ==
    /\ frame' = [frame EXCEPT ![c] =
                    Done([IdleFrame EXCEPT !.decoder = name, !.input = text], outcome)]
    /\ UNCHANGED <<climb, rng, hashseed, command>>

\* The caller has taken the outcome; the call's locals are discarded.
Finish(c) ==
    /\ frame[c].pc = "done"
    /\ frame' = [frame EXCEPT ![c] = IdleFrame]
    /\ climb' = [climb EXCEPT ![c] = IdleClimb]
    /\ UNCHANGED <<rng, hashseed, command>>

-----------------------------------------------------------------------------
(* caesar_cipher_decoder, one loop iteration per step *)

\* Texts given to the letter ciphers: capitals, lower case, a space, a
\* penalised letter and a non-ASCII letter.
TextAlphabet == {84, 111, 32, 74, 233}      \* "T", "o", " ", "J", U+00E9

YMJ_HTIJ == <<89,77,74,32,72,84,73,74>>     \* "YMJ HTIJ"
THE_CODE == <<84,72,69,32,67,79,68,69>>     \* "THE CODE"

CaesarInputs == Strings(TextAlphabet, MaxLen) \cup {YMJ_HTIJ, THE_CODE}

\* best_plain = encrypted_text; best_score = -math.inf; shift starts at 1
CaesarCall(c) ==
    /\ Callable(c)
    /\ \E text \in CaesarInputs :
          frame' = [frame EXCEPT ![c] =
                       [IdleFrame EXCEPT !.pc = "caesar",
                                         !.decoder = "caesar_cipher_decoder",
                                         !.input = text, !.index = 1,
                                         !.best_plain = text]]
    /\ UNCHANGED <<climb, rng, hashseed, command>>

\* Mutant of CaesarAccepts: `>=`, the last of the best shifts wins.
CaesarAcceptsOnTie(score, best_score) == ~ScoreGT(best_score, score)

\* if score > best_score: keep the candidate
CaesarAccepts(score, best_score) == ScoreGT(score, best_score)

\* One pass of `for shift in range(1, 26)`; an exception leaves the call.
CaesarIteration(c) ==
    LET f == frame[c]
    IN  /\ f.pc = "caesar"
        /\ f.index <= 25
        /\ \E candidate \in {DecodeCaesar(f.input, f.index)} :
           \E score \in {ScorePlaintext(candidate.value)} :
              frame' = [frame EXCEPT ![c] =
                 IF candidate.kind = "raise" THEN Done(f, candidate)
                 ELSE IF CaesarAccepts(score, f.best_score)
                      THEN [f EXCEPT !.index = f.index + 1,
                                     !.best_score = score,
                                     !.best_plain = candidate.value]
                      ELSE [f EXCEPT !.index = f.index + 1]]
        /\ UNCHANGED <<climb, rng, hashseed, command>>

\* return _format_decoded(best_plain, label="DECODED")
CaesarReturn(c) ==
    LET f == frame[c]
    IN  /\ f.pc = "caesar"
        /\ f.index = 26
        /\ frame' = [frame EXCEPT ![c] =
                        Done(f, Return(FormatDecoded(f.best_plain, DECODED_LABEL)))]
        /\ UNCHANGED <<climb, rng, hashseed, command>>

\* The plaintext of shift s and its score (the input raises for no shift or
\* for all of them, so these are read only for inputs that do not raise).
CaesarScore(text, s) == ScorePlaintext(DecodeCaesar(text, s).value)

\* The scores of the shifts 1..n, in order.
RECURSIVE CaesarScores(_, _)
CaesarScores(text, n) ==
    IF n = 0 THEN <<>> ELSE Append(CaesarScores(text, n - 1), CaesarScore(text, n))

\* The lowest shift of 1..n whose score is the maximum over 1..n.
LowestBestShift(text, n) ==
    LET sc == CaesarScores(text, n)
    IN  CHOOSE s \in 1..n :
            /\ \A t \in 1..n : ~ScoreGT(sc[t], sc[s])
            /\ \A t \in 1..(s - 1) : ScoreGT(sc[s], sc[t])

\* C4: at every point of the Caesar loop the retained plaintext is the one of
\* the lowest shift, among the shifts 1..shift-1 evaluated so far, whose
\* score is the maximum over them (so a later shift replaced it only with a
\* strictly greater score, and shift 0 is no hypothesis); the returned string
\* is the format of the retained plaintext after shift 25, and "YMJ HTIJ"
\* selects shift 21 and returns "DECODED: THE CODE".
C4_CaesarLowestBestShift ==
    \A c \in Callers :
        LET f == frame[c]
            evaluated == IF f.pc = "caesar" THEN f.index - 1 ELSE 25
            best == LowestBestShift(f.input, evaluated)
        IN  (f.decoder = "caesar_cipher_decoder" /\ f.outcome.kind # "raise"
                                                  /\ evaluated >= 1)
            => /\ f.best_plain = DecodeCaesar(f.input, best).value
               /\ f.best_score = CaesarScore(f.input, best)
               /\ f.pc = "done" =>
                    /\ f.outcome = Return(FormatDecoded(f.best_plain, DECODED_LABEL))
                    /\ f.input = YMJ_HTIJ =>
                          /\ best = 21
                          /\ f.outcome = Return(DECODED_PREFIX \o THE_CODE)

\* C4 witness: a Caesar call on a text with letters has returned although a
\* later shift gave a different plaintext with the same, maximal score.
C4_Witness ==
    LET f == frame[1]
        best == LowestBestShift(f.input, 25)
    IN  /\ f.pc = "done"
        /\ f.decoder = "caesar_cipher_decoder"
        /\ f.outcome.kind = "return"
        /\ \E t \in (best + 1)..25 :
              /\ ScoreEQ(CaesarScore(f.input, t), CaesarScore(f.input, best))
              /\ DecodeCaesar(f.input, t).value # f.best_plain

NextCaesar == CaesarCall(1) \/ CaesarIteration(1) \/ CaesarReturn(1) \/ Finish(1)

SpecCaesar == InitOneProcess /\ [][NextCaesar]_vars

-----------------------------------------------------------------------------
(* simple_substitution_decoder and _hill_climb, one step per loop pass *)

\* Ciphertexts given to the substitution solver when the generator is left
\* unconstrained (every draw is followed).
SubstInputs ==
    { <<65, 66>>,               \* "AB"
      <<81, 32, 122>>,          \* "Q z"
      <<97, 233>> }             \* "a" U+00E9

\* Ciphertexts given to it when the draws are those of the call's generator.
XLI_GSHI == <<88,76,73,32,71,83,72,73>>         \* "XLI GSHI"
WKH_FRGH == <<87,107,104,32,102,114,103,104>>   \* "Wkh frgh"
DrawnInputs == {XLI_GSHI, WKH_FRGH, <<65, 66>>}

\* hash(ciphertext): a function of the text and of the hash randomisation of
\* the caller's process, the same for every call of that process.
RECURSIVE TextSum(_)
TextSum(text) == IF text = <<>> THEN 0 ELSE (Head(text) + 31 * TextSum(Tail(text))) % SeedSpace

Hash(c, text) == (TextSum(text) + 33 * hashseed[c]) % SeedSpace

\* rng.sample(range(26), 2) of a generator seeded with `seed`, at its n-th
\* draw: two distinct positions, a function of (seed, n) alone.
SamplePair(g) ==
    LET x == (g.seed * 37 + g.n * 101 + g.seed * g.n * 13 + 11) % 650
        i == x \div 25
        j == x % 25
    IN  <<i + 1, IF j >= i THEN j + 2 ELSE j + 1>>

\* best_plain = encrypted_text; best_score = -math.inf; attempt starts at 0
SubstCall(c, inputs) ==
    /\ Callable(c)
    /\ \E text \in inputs :
          frame' = [frame EXCEPT ![c] =
                       [IdleFrame EXCEPT !.pc = "subst",
                                         !.decoder = "simple_substitution_decoder",
                                         !.input = text, !.index = 0,
                                         !.best_plain = text]]
    /\ UNCHANGED <<climb, rng, hashseed, command>>

\* candidate = _hill_climb(encrypted_text, iterations, seed=attempt): the call
\* seeds its generator, builds the frequency key and scores its plaintext.
HillClimbStart(c) ==
    LET f == frame[c]
    IN  /\ f.pc = "subst"
        /\ f.index < Restarts
        /\ frame' = [frame EXCEPT ![c].pc = "hill_climb"]
        /\ rng' = [rng EXCEPT ![c] =
                      [seed |-> (Hash(c, f.input) + f.index) % SeedSpace, n |-> 0]]
        /\ \E key \in {BuildInitialKey(f.input)} :
           \E best_plain \in {DecryptWithKey(key, f.input)} :
              climb' = [climb EXCEPT ![c] =
                           [IdleClimb EXCEPT !.phase = "sample", !.iter = 0, !.key = key,
                                             !.best_plain = best_plain,
                                             !.best_score = ScorePlaintext(best_plain)]]
        /\ UNCHANGED <<hashseed, command>>

\* i, j drawn; swapped_key, candidate_plain and candidate_score computed.
HillClimbPropose(c, i, j) ==
    LET h == climb[c]
    IN  /\ frame[c].pc = "hill_climb"
        /\ h.phase = "sample"
        /\ h.iter < Iterations
        /\ \E swapped_key \in {SwapKeyPositions(h.key, i, j)} :
           \E candidate_plain \in {DecryptWithKey(swapped_key, frame[c].input)} :
              climb' = [climb EXCEPT ![c] =
                           [h EXCEPT !.phase = "decide", !.swapped_key = swapped_key,
                                     !.candidate_plain = candidate_plain,
                                     !.candidate_score = ScorePlaintext(candidate_plain)]]
        /\ rng' = [rng EXCEPT ![c].n = @ + 1]
        /\ UNCHANGED <<frame, hashseed, command>>

\* The draw of any generator whatever: every pair of distinct positions.
HillClimbProposeAny(c) ==
    \E i, j \in 1..26 : i # j /\ HillClimbPropose(c, i, j)

\* The draw of the call's generator.
HillClimbProposeDrawn(c) ==
    \E pair \in {SamplePair(rng[c])} : HillClimbPropose(c, pair[1], pair[2])

\* Mutant of HillClimbAccepts: `>=`, a swap of equal score is kept.
HillClimbAcceptsEqual(candidate_score, best_score) == ~ScoreGT(best_score, candidate_score)

\* if candidate_score > best_score
HillClimbAccepts(candidate_score, best_score) == ScoreGT(candidate_score, best_score)

\* The swap is kept or dropped; the locals of the pass are dead afterwards.
HillClimbDecide(c) ==
    LET h == climb[c]
        next == [h EXCEPT !.phase = "sample", !.iter = h.iter + 1,
                          !.swapped_key = <<>>, !.candidate_plain = <<>>,
                          !.candidate_score = NegInf]
    IN  /\ frame[c].pc = "hill_climb"
        /\ h.phase = "decide"
        /\ climb' = [climb EXCEPT ![c] =
                        IF HillClimbAccepts(h.candidate_score, h.best_score)
                        THEN [next EXCEPT !.key = h.swapped_key,
                                          !.best_plain = h.candidate_plain,
                                          !.best_score = h.candidate_score]
                        ELSE next]
        /\ UNCHANGED <<frame, rng, hashseed, command>>

\* return best_plain; the tool scores it and keeps it if strictly better.
HillClimbReturn(c) ==
    LET f == frame[c]
        candidate == climb[c].best_plain
    IN  /\ f.pc = "hill_climb"
        /\ climb[c].phase = "sample"
        /\ climb[c].iter = Iterations
        /\ \E score \in {ScorePlaintext(candidate)} :
              frame' = [frame EXCEPT ![c] =
                           IF ScoreGT(score, f.best_score)
                           THEN [f EXCEPT !.pc = "subst", !.index = f.index + 1,
                                          !.best_score = score, !.best_plain = candidate]
                           ELSE [f EXCEPT !.pc = "subst", !.index = f.index + 1]]
        /\ climb' = [climb EXCEPT ![c] = IdleClimb]
        /\ UNCHANGED <<rng, hashseed, command>>

\* return _format_decoded(best_plain, label="DECODED")
SubstReturn(c) ==
    LET f == frame[c]
    IN  /\ f.pc = "subst"
        /\ f.index = Restarts
        /\ frame' = [frame EXCEPT ![c] =
                        Done(f, Return(FormatDecoded(f.best_plain, DECODED_LABEL)))]
        /\ UNCHANGED <<climb, rng, hashseed, command>>

\* One caller; the generator is left unconstrained.
NextSubst ==
    \/ SubstCall(1, SubstInputs)
    \/ HillClimbStart(1)
    \/ HillClimbProposeAny(1)
    \/ HillClimbDecide(1)
    \/ HillClimbReturn(1)
    \/ SubstReturn(1)
    \/ Finish(1)

SpecSubst == InitOneProcess /\ [][NextSubst]_vars

\* Two callers of one process, interleaved; each draws from its generator.
NextInterleaved ==
    \E c \in Callers :
        \/ SubstCall(c, DrawnInputs)
        \/ HillClimbStart(c)
        \/ HillClimbProposeDrawn(c)
        \/ HillClimbDecide(c)
        \/ HillClimbReturn(c)
        \/ SubstReturn(c)
        \/ Finish(c)

SpecInterleaved == Init /\ [][NextInterleaved]_vars

-----------------------------------------------------------------------------
(* Properties of the substitution solver *)

IsPermutation(key) ==
    /\ Len(key) = 26
    /\ {key[k] : k \in 1..26} = {LETTERS[k] : k \in 1..26}

InitialPlain(c) == DecryptWithKey(BuildInitialKey(frame[c].input), frame[c].input)

\* C6: inside a hill climb the key is at every point a permutation of the 26
\* letters: the frequency key it starts from, every swapped candidate key,
\* and every key kept after a swap.
C6_KeyIsPermutation ==
    \A c \in Callers :
        climb[c].phase # "off" =>
            /\ IsPermutation(climb[c].key)
            /\ climb[c].phase = "decide" => IsPermutation(climb[c].swapped_key)

\* A swap was kept earlier in this climb and another one has just been made.
C6_Witness ==
    /\ climb[1].phase = "decide"
    /\ climb[1].iter >= 1
    /\ climb[1].key # BuildInitialKey(frame[1].input)
    /\ climb[1].swapped_key # climb[1].key

\* C7: within one hill climb the best score never decreases from one step to
\* the next, and the key, best plaintext and best score change only at a
\* decision whose candidate score is strictly greater than the best score,
\* which then becomes the best score.
C7_ScoreMonotone ==
    [][\A c \in Callers :
          (climb[c].phase # "off" /\ climb'[c].phase # "off") =>
              /\ ~ScoreGT(climb[c].best_score, climb'[c].best_score)
              /\ (\/ climb'[c].key # climb[c].key
                  \/ climb'[c].best_plain # climb[c].best_plain
                  \/ climb'[c].best_score # climb[c].best_score)
                 => /\ climb[c].phase = "decide"
                    /\ ScoreGT(climb[c].candidate_score, climb[c].best_score)
                    /\ climb'[c].best_score = climb[c].candidate_score]_vars

\* A climb has run all its iterations and ends above the score it started at.
C7_Witness ==
    /\ climb[1].phase = "sample"
    /\ climb[1].iter = Iterations
    /\ ScoreGT(climb[1].best_score, ScorePlaintext(InitialPlain(1)))

SolvedBy(c) ==
    /\ frame[c].pc = "done"
    /\ frame[c].decoder = "simple_substitution_decoder"

\* C8: any two invocations of the substitution solver on the same ciphertext
\* return the same output.
C8_SameInputSameOutput ==
    \A c1, c2 \in Callers :
        (SolvedBy(c1) /\ SolvedBy(c2) /\ frame[c1].input = frame[c2].input)
            => frame[c1].outcome = frame[c2].outcome

\* Invocations made by one interpreter process, however interleaved, do
\* return the same output on the same ciphertext.
SameProcessSameOutput ==
    \A c1, c2 \in Callers :
        (SolvedBy(c1) /\ SolvedBy(c2) /\ frame[c1].input = frame[c2].input
            /\ hashseed[c1] = hashseed[c2])
            => frame[c1].outcome = frame[c2].outcome

-----------------------------------------------------------------------------
(* The one-shot tools as calls *)

MorseAlphabet == {46, 45, 32, 47, 124, 120}         \* . - space / | x
E_DECODED == <<46, 32>> \o DECODED_LABEL \o <<58>>      \* ". DECODED:"
\* Two letters with a run of spaces between them.
Spaces(n) == [k \in 1..n |-> 32]
MorseSpaced ==
    {first \o Spaces(n) \o second :
        first \in {<<46>>, <<46, 45>>}, second \in {<<46>>, <<45>>}, n \in 1..(MaxLen + 3)}
MorseInputs == Strings(MorseAlphabet, MaxLen + 1) \cup {E_DECODED} \cup MorseSpaced

PolybiusAlphabet == {49, 50, 52, 54, 32, 44}        \* 1 2 4 6 space ,
PolybiusInputs == Strings(PolybiusAlphabet, MaxLen + 1)

NumericAlphabet == {48, 49, 50, 55, 45, 32}         \* 0 1 2 7 - space
HELLO_NUMBERS == <<56,32,53,32,49,50,32,49,50,32,49,53>>    \* "8 5 12 12 15"
PARTIAL_NUMBERS == <<56,32,53,32,51,48>>                    \* "8 5 30"
SPACED_NUMBERS == <<56,32,48,32,48,32,53>>                  \* "8 0 0 5"
NumericInputs ==
    Strings(NumericAlphabet, MaxLen + 1)
        \cup {HELLO_NUMBERS, PARTIAL_NUMBERS, SPACED_NUMBERS}

AtbashInputs == Strings(TextAlphabet \cup {90, 98}, MaxLen)     \* also "Z", "b"

RailFenceAlphabet == {84, 72, 69, 73, 78, 32}       \* T H E I N space
RailFenceInputs == Strings(RailFenceAlphabet, MaxLen + 1)

AcrosticAlphabet == {72, 105, 32, 10, 46, 49}       \* H i space \n . 1
AcrosticInputs == Strings(AcrosticAlphabet, MaxLen + 1)

\* Ciphertexts and rail counts given to _rail_fence_decode directly.
HLOOLELWRD == <<72,76,79,79,76,69,76,87,82,68>>     \* "HLOOLELWRD"
HELLOWORLD == <<72,69,76,76,79,87,79,82,76,68>>     \* "HELLOWORLD"
RailTexts == Strings({65, 66, 32}, MaxLen + 1) \cup {HLOOLELWRD}
RailCounts == (0 - 1)..(MaxLen + 2)

\* Whitespace-free texts a caller enciphers before decoding them again.
RailPlaintexts == Strings({65, 66, 99}, MaxLen + 2) \cup {HELLOWORLD}

\* The zigzag encoding of p on r rails (r > 1): position k lies on the rail
\* given by the triangle wave of period 2(r - 1), and the rows are read in
\* ascending rail order.
ZigzagRail(k, r) ==
    LET m == (k - 1) % (2 * (r - 1))
    IN  IF m < r THEN m ELSE 2 * (r - 1) - m

RECURSIVE ZigzagRow(_, _, _, _)
ZigzagRow(p, r, rail, k) ==
    IF k > Len(p) THEN <<>>
    ELSE (IF ZigzagRail(k, r) = rail THEN <<p[k]>> ELSE <<>>) \o ZigzagRow(p, r, rail, k + 1)

RECURSIVE ZigzagRows(_, _, _)
ZigzagRows(p, r, rail) ==
    IF rail >= r THEN <<>> ELSE ZigzagRow(p, r, rail, 1) \o ZigzagRows(p, r, rail + 1)

ZigzagEncode(p, r) == ZigzagRows(p, r, 0)

AtbashCall(c) ==
    /\ Callable(c)
    /\ \E text \in AtbashInputs :
          Apply(c, "atbash_cipher_decoder", text, AtbashCipherDecoder(text))

MorseCall(c) ==
    /\ Callable(c)
    /\ \E text \in MorseInputs :
          Apply(c, "morse_code_decoder", text, MorseCodeDecoder(text))

PolybiusCall(c) ==
    /\ Callable(c)
    /\ \E text \in PolybiusInputs :
          Apply(c, "polybius_square_decoder", text, PolybiusSquareDecoder(text))

NumericCall(c) ==
    /\ Callable(c)
    /\ \E text \in NumericInputs :
          Apply(c, "numeric_encoding_decoder", text, NumericEncodingDecoder(text))

RailFenceCall(c) ==
    /\ Callable(c)
    /\ \E text \in RailFenceInputs :
          Apply(c, "rail_fence_decoder", text, RailFenceDecoder(text))

AcrosticCall(c) ==
    /\ Callable(c)
    /\ \E text \in AcrosticInputs :
          Apply(c, "acrostic_detector", text, AcrosticDetector(text))

\* _rail_fence_decode(cipher_text, rails) called with a rail count of the
\* caller's choosing.
RailFenceDecodeCall(c) ==
    /\ Callable(c)
    /\ \E text \in RailTexts, rails \in RailCounts :
          frame' = [frame EXCEPT ![c] =
                       Done([IdleFrame EXCEPT !.decoder = "_rail_fence_decode",
                                              !.input = text, !.rails = rails],
                            RailFenceDecode(text, rails))]
    /\ UNCHANGED <<climb, rng, hashseed, command>>

\* The same call on the zigzag encoding of a text the caller keeps.
RailRoundTripCall(c) ==
    /\ Callable(c)
    /\ \E p \in RailPlaintexts :
          \E rails \in 2..(Len(p) - 1) :
              frame' = [frame EXCEPT ![c] =
                           Done([IdleFrame EXCEPT !.decoder = "_rail_fence_decode",
                                                  !.input = ZigzagEncode(p, rails),
                                                  !.rails = rails, !.plain = p],
                                RailFenceDecode(ZigzagEncode(p, rails), rails))]
    /\ UNCHANGED <<climb, rng, hashseed, command>>

-----------------------------------------------------------------------------
(* rail_fence_decoder, one loop iteration per step *)

\* Texts given to the solver when its loops are followed step by step.
RailSolverInputs == Strings({73, 78, 32}, MaxLen + 1)       \* I N space

\* cleaned_input = encrypted_text.strip(); best_candidate = cleaned_input;
\* best_score = -1; rails starts at 2
RailSolverCall(c) ==
    /\ Callable(c)
    /\ \E text \in RailSolverInputs :
          frame' = [frame EXCEPT ![c] =
                       [IdleFrame EXCEPT !.pc = "rail_fence",
                                         !.decoder = "rail_fence_decoder",
                                         !.input = text, !.rails = 2,
                                         !.best_plain = Strip(text),
                                         !.best_score = [num |-> 0 - 1, den |-> 1]]]
    /\ UNCHANGED <<climb, rng, hashseed, command>>

\* for rails in range(2, 7): decode, score, keep if strictly better
RailSolverIteration(c) ==
    LET f == frame[c]
    IN  /\ f.pc = "rail_fence"
        /\ f.rails <= 6
        /\ \E candidate \in {RailFenceDecode(Strip(f.input), f.rails)} :
           \E score \in {[num |-> ScoreCandidate(candidate.value), den |-> 1]} :
              frame' = [frame EXCEPT ![c] =
                           IF candidate.kind = "raise"
                           THEN Done(f, Return(ERROR_RAIL_FENCE \o candidate.value))
                           ELSE IF ScoreGT(score, f.best_score)
                           THEN [f EXCEPT !.rails = f.rails + 1, !.best_score = score,
                                          !.best_plain = candidate.value]
                           ELSE [f EXCEPT !.rails = f.rails + 1]]
        /\ UNCHANGED <<climb, rng, hashseed, command>>

\* spaced = _auto_space(best_candidate): uppercase, i = 0, result_words = []
AutoSpaceStart(c) ==
    LET f == frame[c]
    IN  /\ f.pc = "rail_fence"
        /\ f.rails = 7
        /\ frame' = [frame EXCEPT ![c] =
                        [f EXCEPT !.pc = "auto_space", !.index = 0, !.result_words = <<>>]]
        /\ UNCHANGED <<climb, rng, hashseed, command>>

\* One pass of `while i < n`.
AutoSpaceIteration(c) ==
    LET f == frame[c]
        uppercase == Upper(f.best_plain)
    IN  /\ f.pc = "auto_space"
        /\ f.index < Len(uppercase)
        /\ frame' = [frame EXCEPT ![c] =
                        [f EXCEPT !.index = AutoSpaceNext(uppercase, f.index),
                                  !.result_words =
                                      Append(@, AutoSpaceToken(uppercase, f.index))]]
        /\ UNCHANGED <<climb, rng, hashseed, command>>

\* The loop has ended: join, collapse, format, return.
RailSolverReturn(c) ==
    LET f == frame[c]
    IN  /\ f.pc = "auto_space"
        /\ f.index >= Len(f.best_plain)
        /\ \E joined \in {JoinWithSpaces(f.result_words)} :
           \E collapsed \in {CollapseWhitespace(joined)} :
           \E spaced \in {Strip(collapsed)} :
              frame' = [frame EXCEPT ![c] =
                           Done(f, Return(DECODED_PREFIX \o FormatDecodedText(spaced)))]
        /\ UNCHANGED <<climb, rng, hashseed, command>>

\* The rail-fence tool step by step.
NextRailSolver ==
    \/ RailSolverCall(1)
    \/ RailSolverIteration(1)
    \/ AutoSpaceStart(1)
    \/ AutoSpaceIteration(1)
    \/ RailSolverReturn(1)
    \/ Finish(1)

SpecRailSolver == InitOneProcess /\ [][NextRailSolver]_vars

\* The steps of a call that has started: the interpreter keeps executing it.
\* (Whether and when a call is made is left to the caller.)
StepRunning ==
    \/ CaesarIteration(1)
    \/ CaesarReturn(1)
    \/ HillClimbStart(1)
    \/ HillClimbProposeDrawn(1)
    \/ HillClimbDecide(1)
    \/ HillClimbReturn(1)
    \/ SubstReturn(1)
    \/ RailSolverIteration(1)
    \/ AutoSpaceStart(1)
    \/ AutoSpaceIteration(1)
    \/ RailSolverReturn(1)

\* The decoders that search (a loop over shifts, restarts, iterations, rail
\* counts or text positions), with their loops unfolded.
NextRunning ==
    \/ CaesarCall(1)
    \/ CaesarIteration(1)
    \/ CaesarReturn(1)
    \/ SubstCall(1, DrawnInputs)
    \/ HillClimbStart(1)
    \/ HillClimbProposeDrawn(1)
    \/ HillClimbDecide(1)
    \/ HillClimbReturn(1)
    \/ SubstReturn(1)
    \/ RailSolverCall(1)
    \/ RailSolverIteration(1)
    \/ AutoSpaceStart(1)
    \/ AutoSpaceIteration(1)
    \/ RailSolverReturn(1)
    \/ Finish(1)

SpecRunning == InitOneProcess /\ [][NextRunning]_vars /\ WF_vars(StepRunning)

\* The tools that decode in one step.
NextTools ==
    \/ AtbashCall(1)
    \/ MorseCall(1)
    \/ PolybiusCall(1)
    \/ NumericCall(1)
    \/ RailFenceCall(1)
    \/ AcrosticCall(1)
    \/ Finish(1)

SpecTools == InitOneProcess /\ [][NextTools]_vars

\* The rail-fence helper on its own.
NextRail == RailFenceDecodeCall(1) \/ RailRoundTripCall(1) \/ Finish(1)

SpecRail == InitOneProcess /\ [][NextRail]_vars

\* The eight decoder tools, one caller.
Next ==
    \/ CaesarCall(1)
    \/ CaesarIteration(1)
    \/ CaesarReturn(1)
    \/ SubstCall(1, SubstInputs)
    \/ HillClimbStart(1)
    \/ HillClimbProposeAny(1)
    \/ HillClimbDecide(1)
    \/ HillClimbReturn(1)
    \/ SubstReturn(1)
    \/ AtbashCall(1)
    \/ MorseCall(1)
    \/ PolybiusCall(1)
    \/ NumericCall(1)
    \/ RailFenceCall(1)
    \/ AcrosticCall(1)
    \/ Finish(1)

Spec == InitOneProcess /\ [][Next]_vars

-----------------------------------------------------------------------------
(* cipher_command_agent.py: the lazily built swarm, one bytecode-level step *)
(* of _ensure_swarm_initialized per action; threads interleave freely       *)

AGENT_NAMES ==
    {"cipher_rookie", "pattern_detective", "steganography_hunter", "cipher_master",
     "intelligence_analyst"}

decoders == <<frame, climb, rng, hashseed>>

\* A thread calls get_cipher_swarm() or get_cipher_agents().
CallGetCipher(t) ==
    /\ thread[t].pc = "idle"
    /\ \E op \in {"get_cipher_swarm", "get_cipher_agents"} :
          thread' = [thread EXCEPT ![t] = [IdleThread EXCEPT !.pc = "check", !.op = op]]
    /\ UNCHANGED <<decoders, globals, entry, hb>>

\* if _swarm is None:   (read without the lock)
UnlockedCheck(t) ==
    /\ thread[t].pc = "check"
    /\ thread' = [thread EXCEPT ![t].pc = IF globals.swarm = 0 THEN "acquire" ELSE "return"]
    /\ UNCHANGED <<decoders, globals, entry, hb>>

\* with _SWARM_LOCK:   (blocks while another thread holds the lock)
AcquireLock(t) ==
    /\ thread[t].pc = "acquire"
    /\ globals.lock = 0
    /\ globals' = [globals EXCEPT !.lock = t]
    /\ thread' = [thread EXCEPT ![t].pc = "locked_check"]
    /\ UNCHANGED <<decoders, entry, hb>>

\* Mutant of StillNone: the test under the lock is dropped.
StillNoneUnchecked(swarm) == TRUE

\* if _swarm is None:   (under the lock)
StillNone(swarm) == swarm = 0

LockedCheck(t) ==
    /\ thread[t].pc = "locked_check"
    /\ thread' = [thread EXCEPT ![t].pc =
                      IF StillNone(globals.swarm) THEN "create" ELSE "release"]
    /\ UNCHANGED <<decoders, globals, entry, hb>>

\* _create_swarm() runs to completion: a new Swarm and its dict of agents.
CreateSwarm(t) ==
    /\ thread[t].pc = "create"
    /\ globals' = [globals EXCEPT !.constructed = @ + 1]
    /\ thread' = [thread EXCEPT ![t].pc = "store_swarm",
                                ![t].swarm_instance = globals.constructed + 1]
    /\ UNCHANGED <<decoders, entry, hb>>

\* _create_swarm() raises (no region, no credentials, ...): the with block
\* releases the lock and the exception leaves the call.
CreateSwarmRaises(t) ==
    /\ thread[t].pc = "create"
    /\ globals' = [globals EXCEPT !.lock = 0]
    /\ thread' = [thread EXCEPT ![t].pc = "done", ![t].result.kind = "raise"]
    /\ UNCHANGED <<decoders, entry, hb>>

\* _swarm, _cipher_agents = ...: the first store, STORE_GLOBAL _swarm
StoreSwarm(t) ==
    /\ thread[t].pc = "store_swarm"
    /\ globals' = [globals EXCEPT !.swarm = thread[t].swarm_instance]
    /\ thread' = [thread EXCEPT ![t].pc = "store_agents"]
    /\ UNCHANGED <<decoders, entry, hb>>

\* ... and the second, STORE_GLOBAL _cipher_agents
StoreAgents(t) ==
    /\ thread[t].pc = "store_agents"
    /\ globals' = [globals EXCEPT !.agents = AgentsDict(AGENT_NAMES)]
    /\ thread' = [thread EXCEPT ![t].pc = "release"]
    /\ UNCHANGED <<decoders, entry, hb>>

\* the end of the with block
ReleaseLock(t) ==
    /\ thread[t].pc = "release"
    /\ globals' = [globals EXCEPT !.lock = 0]
    /\ thread' = [thread EXCEPT ![t].pc = "return"]
    /\ UNCHANGED <<decoders, entry, hb>>

\* return _swarm: get_cipher_swarm hands it to its caller, get_cipher_agents
\* drops it and goes on.
ReturnSwarm(t) ==
    /\ thread[t].pc = "return"
    /\ thread' = [thread EXCEPT ![t] =
                      IF thread[t].op = "get_cipher_swarm"
                      THEN [@ EXCEPT !.pc = "done", !.result.kind = "return",
                                     !.result.swarm = globals.swarm]
                      ELSE [@ EXCEPT !.pc = "copy_agents"]]
    /\ UNCHANGED <<decoders, globals, entry, hb>>

\* _cipher_agents or {}
OrEmpty(agents) == IF agents.is_none \/ agents.keys = {} THEN AgentsDict({}) ELSE agents

\* return dict(_cipher_agents or {})
ReturnAgents(t) ==
    /\ thread[t].pc = "copy_agents"
    /\ thread' = [thread EXCEPT ![t].pc = "done", ![t].result.kind = "return",
                                ![t].result.agents = OrEmpty(globals.agents)]
    /\ UNCHANGED <<decoders, globals, entry, hb>>

\* The caller has taken the result.
ThreadFinish(t) ==
    /\ thread[t].pc = "done"
    /\ thread' = [thread EXCEPT ![t] = IdleThread]
    /\ UNCHANGED <<decoders, globals, entry, hb>>

NextSwarm ==
    \E t \in Threads :
        \/ CallGetCipher(t)
        \/ UnlockedCheck(t)
        \/ AcquireLock(t)
        \/ LockedCheck(t)
        \/ CreateSwarm(t)
        \/ CreateSwarmRaises(t)
        \/ StoreSwarm(t)
        \/ StoreAgents(t)
        \/ ReleaseLock(t)
        \/ ReturnSwarm(t)
        \/ ReturnAgents(t)
        \/ ThreadFinish(t)

SpecSwarm == InitOneProcess /\ [][NextSwarm]_vars

-----------------------------------------------------------------------------
(* cipher_command_agent.py: the entrypoint and its heartbeat task.  Both    *)
(* are coroutines of one event loop: the heartbeat runs only while the      *)
(* entrypoint is suspended in an await.                                     *)

NO_PROMPT == "Error: No prompt provided. Please provide encrypted text or cryptographic challenge."
ERROR_PROCESSING == "Error processing cipher: "

\* payload.get("prompt", ""): absent or empty, or a text.
Prompts == {"", "KHOOR"}

\* The context argument: None, an object without a ping attribute, a falsy
\* object with one, a truthy object with one.
Contexts == {"None", "no_ping", "falsy_with_ping", "with_ping"}

\* context and hasattr(context, "ping")
StartsHeartbeat(context) == context = "with_ping"

\* What `await swarm_instance.invoke_async(user_input)` does: it raises, or
\* gives a response.  results: absent or empty; items none of which has a
\* result.message dict with content; a last such item with a text; a last
\* such item whose content[0]["text"] raises.  message likewise.
Responses ==
    [raises : BOOLEAN,
     results : {"none", "no_message", "text", "malformed"},
     message : {"absent", "dict_text", "dict_malformed", "dict_no_content", "other"}]

\* The try block after the await: the string returned, "Error processing
\* cipher: ..." for whatever was raised in it.
ExtractText(response) ==
    IF response.raises THEN ERROR_PROCESSING
    ELSE IF response.results = "text" THEN "results text"
    ELSE IF response.results = "malformed" THEN ERROR_PROCESSING
    ELSE IF response.message = "dict_text" THEN "message text"
    ELSE IF response.message = "dict_malformed" THEN ERROR_PROCESSING
    ELSE IF response.message \in {"dict_no_content", "other"} THEN "str(response.message)"
    ELSE "str(response)"

\* user_input is empty: return the error string at once
EntryNoPrompt ==
    /\ entry.pc = "idle"
    /\ \E context \in Contexts :
          entry' = [IdleEntry EXCEPT !.pc = "done", !.context = context,
                                     !.result = [kind |-> "return", value |-> NO_PROMPT]]
    /\ UNCHANGED <<decoders, globals, thread, hb>>

\* get_cipher_swarm() when no other thread is inside it: the swarm is there,
\* or the lock is free and it is built and stored.
SwarmReady == globals.swarm # 0 \/ globals.lock = 0

GlobalsWithSwarm ==
    IF globals.swarm # 0 THEN globals
    ELSE [globals EXCEPT !.swarm = globals.constructed + 1,
                         !.agents = AgentsDict(AGENT_NAMES),
                         !.constructed = @ + 1]

\* A prompt: the swarm is fetched, the heartbeat task is created if the
\* context can ping, and the entrypoint suspends in await invoke_async(...).
EntryStart ==
    /\ entry.pc = "idle"
    /\ SwarmReady
    /\ \E prompt \in Prompts \ {""}, context \in Contexts :
          /\ entry' = [IdleEntry EXCEPT !.pc = "invoke", !.prompt = prompt,
                                        !.context = context,
                                        !.ping_task = StartsHeartbeat(context)]
          /\ hb' = IF StartsHeartbeat(context)
                   THEN [NoHeartbeat EXCEPT !.state = "created"] ELSE NoHeartbeat
    /\ globals' = GlobalsWithSwarm
    /\ UNCHANGED <<decoders, thread>>

\* get_cipher_swarm() raises on the first build: the call is before the try
\* block and before create_task, the exception leaves the entrypoint.
EntryStartRaises ==
    /\ entry.pc = "idle"
    /\ globals.swarm = 0 /\ globals.lock = 0
    /\ \E prompt \in Prompts \ {""}, context \in Contexts :
          entry' = [IdleEntry EXCEPT !.pc = "done", !.prompt = prompt, !.context = context,
                                     !.result = [kind |-> "raise", value |-> "_create_swarm"]]
    /\ UNCHANGED <<decoders, globals, thread, hb>>

\* The event loop runs the heartbeat only while the entrypoint is suspended.
Suspended == entry.pc \in {"invoke", "await_ping_task"}

\* The task starts: while True, try, await context.ping(...)
HeartbeatStart ==
    /\ Suspended
    /\ hb.state = "created"
    /\ ~hb.cancel_requested
    /\ hb' = [hb EXCEPT !.state = "pinging"]
    /\ UNCHANGED <<decoders, globals, thread, entry>>

\* Mutant of AfterPing: a ping that raises ends the task.
AfterPingStops(ok) == IF ok THEN "sleeping" ELSE "failed"

\* The ping returns, or raises an Exception that is logged and dropped; then
\* await asyncio.sleep(interval_seconds).
AfterPing(ok) == "sleeping"

HeartbeatPing ==
    /\ Suspended
    /\ hb.state = "pinging"
    /\ ~hb.cancel_requested
    /\ hb.pings < MaxPings
    /\ \E ok \in BOOLEAN :
          hb' = [hb EXCEPT !.state = AfterPing(ok), !.pings = @ + 1,
                           !.failed = IF ok THEN @ ELSE @ + 1]
    /\ UNCHANGED <<decoders, globals, thread, entry>>

\* The sleep is over: the next pass of while True.
HeartbeatWake ==
    /\ Suspended
    /\ hb.state = "sleeping"
    /\ ~hb.cancel_requested
    /\ hb' = [hb EXCEPT !.state = "pinging"]
    /\ UNCHANGED <<decoders, globals, thread, entry>>

\* CancelledError is thrown into the task at its await (or before its first
\* step); it is no Exception, nothing in the loop catches it.
HeartbeatCancelled ==
    /\ Suspended
    /\ hb.state \in {"created", "pinging", "sleeping"}
    /\ hb.cancel_requested
    /\ hb' = [hb EXCEPT !.state = "cancelled"]
    /\ UNCHANGED <<decoders, globals, thread, entry>>

\* invoke_async is over; the try block computes the string to return, and
\* the finally block cancels the heartbeat task if there is one and awaits it.
InvokeCompletes ==
    /\ entry.pc = "invoke"
    /\ \E response \in Responses :
          entry' = [entry EXCEPT !.pc = IF entry.ping_task THEN "await_ping_task" ELSE "done",
                                 !.result = [kind |-> "return",
                                             value |-> ExtractText(response)]]
    /\ hb' = IF entry.ping_task THEN [hb EXCEPT !.cancel_requested = TRUE] ELSE hb
    /\ UNCHANGED <<decoders, globals, thread>>

\* await ping_task ends with CancelledError, which is passed over; return.
AwaitPingTask ==
    /\ entry.pc = "await_ping_task"
    /\ hb.state = "cancelled"
    /\ entry' = [entry EXCEPT !.pc = "done"]
    /\ UNCHANGED <<decoders, globals, thread, hb>>

\* The runtime has the response; the next request may come.
EntryFinish ==
    /\ entry.pc = "done"
    /\ entry' = IdleEntry
    /\ hb' = NoHeartbeat
    /\ UNCHANGED <<decoders, globals, thread>>

NextEntrypoint ==
    \/ EntryNoPrompt
    \/ EntryStart
    \/ EntryStartRaises
    \/ HeartbeatStart
    \/ HeartbeatPing
    \/ HeartbeatWake
    \/ HeartbeatCancelled
    \/ InvokeCompletes
    \/ AwaitPingTask
    \/ EntryFinish

SpecEntrypoint == InitOneProcess /\ [][NextEntrypoint]_vars

-----------------------------------------------------------------------------
(* Properties of the tool calls *)

Returned(c, name) == frame[c].pc = "done" /\ frame[c].decoder = name

\* C1: every call of one of the eight decoder tools ends with a string
\* handed to the caller (a DECODED string, a sentinel or an Error string);
\* none ends with an exception that reaches the caller.
C1_NoExceptionPropagates ==
    \A c \in Callers :
        frame[c].pc = "done" =>
            /\ frame[c].outcome.kind = "return"
            /\ frame[c].outcome.value \in Seq(Nat)

\* The position of the first token that is neither the word separator nor
\* in the table, 0 if there is none.
FirstUnknown(tokens, table, separators) ==
    LET bad == {k \in 1..Len(tokens) : tokens[k] \notin separators
                                       /\ tokens[k] \notin DOMAIN table}
    IN  IF bad = {} THEN 0 ELSE CHOOSE k \in bad : \A m \in bad : k <= m

FirstUnknownMorse(c) ==
    FirstUnknown(NormalizeMorseInput(frame[c].input), MORSE_TO_CHAR, {<<47>>})

FirstUnknownPolybius(c) ==
    FirstUnknown(NormalizePolybiusInput(frame[c].input), POLYBIUS_SQUARE, {})

\* C2 (as amended): when a Morse token other than the word separator "/", or
\* a Polybius token, has no entry in the table, the returned string is
\* exactly the tool's error prefix, "Unknown Morse symbol: " or "Unknown
\* coordinate: ", and the first such token: it does not start with
\* "DECODED:" and holds nothing decoded from the tokens before it.
C2_UnknownTokenAborts ==
    \A c \in Callers :
        /\ (Returned(c, "morse_code_decoder") /\ FirstUnknownMorse(c) # 0) =>
              /\ frame[c].outcome =
                    Return(ERROR_MORSE \o UNKNOWN_MORSE
                           \o NormalizeMorseInput(frame[c].input)[FirstUnknownMorse(c)])
              /\ ~StartsWith(frame[c].outcome.value, DECODED_LABEL \o <<58>>)
        /\ (Returned(c, "polybius_square_decoder") /\ FirstUnknownPolybius(c) # 0) =>
              /\ frame[c].outcome =
                    Return(ERROR_POLYBIUS \o UNKNOWN_COORDINATE
                           \o NormalizePolybiusInput(frame[c].input)[FirstUnknownPolybius(c)])
              /\ ~StartsWith(frame[c].outcome.value, DECODED_LABEL \o <<58>>)

\* A Morse call whose unknown token comes after a token that decodes.
C2_Witness ==
    /\ Returned(1, "morse_code_decoder")
    /\ FirstUnknownMorse(1) >= 2
    /\ NormalizeMorseInput(frame[1].input)[1] \in DOMAIN MORSE_TO_CHAR

\* C2 as stated: on a token without a table entry the returned string never
\* contains "DECODED:".
C2_NeverContainsDecoded ==
    \A c \in Callers :
        /\ (Returned(c, "morse_code_decoder") /\ FirstUnknownMorse(c) # 0) =>
              ~Contains(frame[c].outcome.value, DECODED_LABEL \o <<58>>)
        /\ (Returned(c, "polybius_square_decoder") /\ FirstUnknownPolybius(c) # 0) =>
              ~Contains(frame[c].outcome.value, DECODED_LABEL \o <<58>>)

\* The integer tokens of a numeric call, and the A1Z26 image of each.
NumericValues(c) ==
    LET tokens == TokenizeNumbers(frame[c].input)
    IN  [k \in 1..Len(tokens) |-> IntOf(tokens[k])]

A1Z26Valid(values) ==
    values # <<>> /\ \A k \in 1..Len(values) : values[k] \in 0..26

A1Z26Mapping(values) ==
    [k \in 1..Len(values) |-> IF values[k] = 0 THEN 32 ELSE 64 + values[k]]

Payload(value) == SubSeq(value, Len(DECODED_PREFIX) + 1, Len(value))

AllLetters(s) == s # <<>> /\ \A k \in 1..Len(s) : IsAlpha(s[k])

AllAsciiLetters(s) == s # <<>> /\ \A k \in 1..Len(s) : s[k] \in AsciiLetters

Involutive(c) ==
    /\ frame[c].outcome.kind = "return"
    /\ AtbashCipherDecoder(Payload(frame[c].outcome.value)).kind = "return"
    /\ Upper(Payload(AtbashCipherDecoder(Payload(frame[c].outcome.value)).value))
           = Upper(frame[c].input)

\* C5: for every input made only of letters, Atbash applied to the text that
\* Atbash produced from it gives the input back, compared without regard
\* to case.
C5_AtbashInvolution ==
    \A c \in Callers :
        (Returned(c, "atbash_cipher_decoder") /\ AllLetters(frame[c].input))
            => Involutive(c)

\* The same over the letters A-Z and a-z, where it holds.
AtbashAsciiInvolution ==
    \A c \in Callers :
        (Returned(c, "atbash_cipher_decoder") /\ AllAsciiLetters(frame[c].input))
            => Involutive(c)

\* C9: decoding with r rails the zigzag encoding on r rails of a
\* whitespace-free text p, 1 < r < len(p), returns p; and "HLOOLELWRD"
\* decoded with 2 rails is "HELLOWORLD".
C9_RailRoundTrip ==
    \A c \in Callers :
        Returned(c, "_rail_fence_decode") =>
            /\ frame[c].plain # <<>> => frame[c].outcome = Return(frame[c].plain)
            /\ (frame[c].input = HLOOLELWRD /\ frame[c].rails = 2)
                   => frame[c].outcome = Return(HELLOWORLD)

\* A round trip on three rails or more whose encoding differs from the text.
C9_Witness ==
    /\ Returned(1, "_rail_fence_decode")
    /\ frame[1].plain # <<>>
    /\ frame[1].rails >= 3
    /\ frame[1].input # frame[1].plain
    /\ frame[1].input = ZigzagEncode(frame[1].plain, frame[1].rails)

NonSpace(ch) == ~IsSpace(ch)

\* C10 (as amended): with rails <= 1, or rails at least the number of
\* non-whitespace characters of the ciphertext, the decode returns the
\* ciphertext with its whitespace removed.
C10_DegenerateReturnsCleaned ==
    \A c \in Callers :
        (/\ Returned(c, "_rail_fence_decode")
         /\ \/ frame[c].rails <= 1
            \/ frame[c].rails >= Len(SelectSeq(frame[c].input, NonSpace)))
            => frame[c].outcome = Return(SelectSeq(frame[c].input, NonSpace))

\* A degenerate decode of a ciphertext that holds whitespace, rails <= 1.
C10_Witness ==
    /\ Returned(1, "_rail_fence_decode")
    /\ frame[1].rails <= 1
    /\ Len(frame[1].input) >= 3
    /\ SelectSeq(frame[1].input, NonSpace) # frame[1].input
    /\ SelectSeq(frame[1].input, NonSpace) # <<>>

\* C10 as stated: with rails <= 1 or rails >= the length of the ciphertext
\* the decode returns the ciphertext unchanged.
C10_DegenerateReturnsInput ==
    \A c \in Callers :
        (/\ Returned(c, "_rail_fence_decode")
         /\ \/ frame[c].rails <= 1
            \/ frame[c].rails >= Len(frame[c].input))
            => frame[c].outcome = Return(frame[c].input)

IsAsciiLetter(ch) == ch \in AsciiLetters

LettersOnly(s) == SelectSeq(s, IsAsciiLetter)

\* The three extractions of an acrostic call, in the order of the source.
Extractions(c) ==
    <<FirstLettersOfLines(frame[c].input), FirstLettersOfWords(frame[c].input),
      FirstLettersOfSentences(frame[c].input)>>

\* The first extraction whose letters-only form is not empty, 0 if none.
FirstWithLetters(c) ==
    LET full == {k \in 1..3 : LettersOnly(Extractions(c)[k]) # <<>>}
    IN  IF full = {} THEN 0 ELSE CHOOSE k \in full : \A m \in full : k <= m

\* C11 (as amended): the detector returns "DECODED: " plus the upper-cased
\* letters-only form of the first extraction (lines, first words, sentences)
\* whose letters-only form is not empty, whatever the later ones give, and
\* NO HIDDEN MESSAGE DETECTED exactly when all three are empty.
C11_AcrosticPriority ==
    \A c \in Callers :
        Returned(c, "acrostic_detector") =>
            IF FirstWithLetters(c) = 0
            THEN frame[c].outcome = Return(NO_HIDDEN_MESSAGE)
            ELSE frame[c].outcome =
                    Return(DECODED_PREFIX
                           \o Upper(LettersOnly(Extractions(c)[FirstWithLetters(c)])))

\* The line extraction wins although the sentence extraction has other letters.
C11_Witness ==
    /\ Returned(1, "acrostic_detector")
    /\ FirstWithLetters(1) = 1
    /\ LettersOnly(Extractions(1)[3]) # <<>>
    /\ LettersOnly(Extractions(1)[3]) # LettersOnly(Extractions(1)[1])

\* C11 as stated: the text after "DECODED: " is the letters-only form itself.
C11_LettersOnlyForm ==
    \A c \in Callers :
        Returned(c, "acrostic_detector") =>
            IF FirstWithLetters(c) = 0
            THEN frame[c].outcome = Return(NO_HIDDEN_MESSAGE)
            ELSE frame[c].outcome =
                    Return(DECODED_PREFIX
                           \o LettersOnly(Extractions(c)[FirstWithLetters(c)]))

\* The step-by-step rail-fence tool returns what rail_fence_decoder returns.
RailSolverAgrees ==
    \A c \in Callers :
        (Returned(c, "rail_fence_decoder") /\ frame[c].rails # 0)
            => frame[c].outcome = RailFenceDecoder(frame[c].input)

Running(c) == frame[c].pc \notin {"idle", "done"}

\* C12: every decoder call that has started returns; the substitution
\* solver makes at most Restarts restarts of at most Iterations iterations,
\* the rail-fence solver tries the rail counts 2..6 and no other, and each
\* pass of the segmentation loop moves its position forward by at least one
\* character and never past the end of the text.
C12_Terminates ==
    /\ \A c \in Callers : Running(c) ~> frame[c].pc = "done"
    /\ [][\A c \in Callers :
             /\ (frame[c].pc = "auto_space" /\ frame'[c].pc = "auto_space")
                    => /\ frame'[c].index >= frame[c].index + 1
                       /\ frame'[c].index <= Len(frame[c].best_plain)
             /\ (frame[c].pc = "rail_fence" /\ frame'[c].pc = "rail_fence")
                    => /\ frame[c].rails \in 2..6
                       /\ frame'[c].rails = frame[c].rails + 1
             /\ frame'[c].pc = "subst" => frame'[c].index \in 0..Restarts
             /\ frame'[c].pc = "hill_climb" => climb'[c].iter \in 0..Iterations]_vars

\* A rail-fence call has returned after a segmentation of several passes,
\* one of which matched a dictionary word.
C12_Witness ==
    /\ Returned(1, "rail_fence_decoder")
    /\ Len(frame[1].result_words) >= 2
    /\ \E k \in 1..Len(frame[1].result_words) : frame[1].result_words[k] = <<73, 78>>

\* The text after "DECODED: " keeps the frame of the ciphertext: same length,
\* non-letters in place, letters in the case of the ciphertext letter.
KeepsFrame(ciphertext, text) ==
    /\ Len(text) = Len(ciphertext)
    /\ \A k \in 1..Len(ciphertext) :
          IF IsAlpha(ciphertext[k])
          THEN IsAlpha(text[k]) /\ (IsUpper(text[k]) <=> IsUpper(ciphertext[k]))
          ELSE text[k] = ciphertext[k]

\* C13: in the string the substitution solver returns, the text following
\* "DECODED: " has every non-letter character of the ciphertext unchanged at
\* its position and every letter in the case (upper/lower) of the ciphertext
\* letter at that position.
C13_OutputKeepsFrame ==
    \A c \in Callers :
        Returned(c, "simple_substitution_decoder") =>
            /\ frame[c].outcome.kind = "return"
            /\ StartsWith(frame[c].outcome.value, DECODED_PREFIX)
            /\ KeepsFrame(frame[c].input, Payload(frame[c].outcome.value))

\* What _decrypt_with_key hands to _format_decoded does keep the frame.
C13_BestPlainKeepsFrame ==
    \A c \in Callers :
        frame[c].decoder = "simple_substitution_decoder" /\ frame[c].pc \in {"subst", "hill_climb"}
            => KeepsFrame(frame[c].input, frame[c].best_plain)

\* The candidate of rail_fence_decoder for a rail count.
RailCandidate(text, rails) == RailFenceDecode(Strip(text), rails).value

\* The Scoring Oracle's score of a candidate plus its word bonus.
OraclePlusBonus(candidate) ==
    LET oracle == ScorePlaintext(candidate)
    IN  [num |-> oracle.num + ScoreCandidate(candidate) * oracle.den, den |-> oracle.den]

\* The word bonus alone, as a score.
BonusOnly(candidate) == [num |-> ScoreCandidate(candidate), den |-> 1]

\* The lowest rail count of 2..6 whose candidate has the maximum of Score.
LowestBestRails(text, Score(_)) ==
    CHOOSE r \in 2..6 :
        /\ \A q \in 2..6 : ~ScoreGT(Score(RailCandidate(text, q)), Score(RailCandidate(text, r)))
        /\ \A q \in 2..(r - 1) :
              ScoreGT(Score(RailCandidate(text, r)), Score(RailCandidate(text, q)))

\* What the tool returns when it segments and formats the candidate of `rails`.
ReturnsCandidate(c, rails) ==
    frame[c].outcome =
        Return(DECODED_PREFIX
                 \o FormatDecodedText(AutoSpace(RailCandidate(frame[c].input, rails))))

\* C14: the rail-fence solver scores each candidate of the rail counts 2..6
\* with the Scoring Oracle's score plus len(word)^2 for each dictionary word
\* found in it, and segments and returns the candidate of maximum score, of
\* the lowest rail count among those of equal maximum score.
C14_SelectsByOraclePlusBonus ==
    \A c \in Callers :
        Returned(c, "rail_fence_decoder") =>
            ReturnsCandidate(c, LowestBestRails(frame[c].input, OraclePlusBonus))

\* The selection the code makes: the word bonus alone, lowest rail count first.
C14_SelectsByBonusOnly ==
    \A c \in Callers :
        Returned(c, "rail_fence_decoder") =>
            ReturnsCandidate(c, LowestBestRails(frame[c].input, BonusOnly))

\* The longest prefix and the longest suffix of s made of dots and dashes.
RECURSIVE LeadToken(_)
LeadToken(s) ==
    IF s # <<>> /\ Head(s) \in {46, 45} THEN <<Head(s)>> \o LeadToken(Tail(s)) ELSE <<>>

RECURSIVE TrailToken(_)
TrailToken(s) ==
    IF s # <<>> /\ s[Len(s)] \in {46, 45}
    THEN Append(TrailToken(SubSeq(s, 1, Len(s) - 1)), s[Len(s)]) ELSE <<>>

\* The input is two Morse letters with something between them ...
TwoMorseLetters(s) ==
    /\ LeadToken(s) \in DOMAIN MORSE_TO_CHAR
    /\ TrailToken(s) \in DOMAIN MORSE_TO_CHAR
    /\ Len(LeadToken(s)) + Len(TrailToken(s)) < Len(s)

\* ... namely this.
Between(s) == SubSeq(s, Len(LeadToken(s)) + 1, Len(s) - Len(TrailToken(s)))

\* The tool's result for the two letters, separated by `gap`.
MorseLettersWith(s, gap) ==
    Return(DECODED_PREFIX
             \o <<UpperChar(MORSE_TO_CHAR[LeadToken(s)])>> \o gap
             \o <<UpperChar(MORSE_TO_CHAR[TrailToken(s)])>>)

\* C15 (as the code has it): between two Morse letters, each of "/", "|" and
\* a run of three or more spaces is a word separator, the two decoded
\* characters are one space apart in the output; one space or two spaces
\* between the letters give adjacent characters.
C15_WordBoundaries ==
    \A c \in Callers :
        Returned(c, "morse_code_decoder") /\ TwoMorseLetters(frame[c].input) =>
            LET sep == Between(frame[c].input)
            IN  /\ (sep \in {<<47>>, <<124>>} \/ (Len(sep) >= 3 /\ sep = Spaces(Len(sep))))
                    => frame[c].outcome = MorseLettersWith(frame[c].input, <<32>>)
                /\ sep \in {Spaces(1), Spaces(2)}
                    => frame[c].outcome = MorseLettersWith(frame[c].input, <<>>)

\* Two letters three spaces apart and decoded as two words.
C15_Witness ==
    /\ Returned(1, "morse_code_decoder")
    /\ TwoMorseLetters(frame[1].input)
    /\ Between(frame[1].input) = Spaces(3)
    /\ frame[1].outcome = MorseLettersWith(frame[1].input, <<32>>)

\* C15 as stated: every run of more than one space is a word separator, a
\* single space is not.
C15_MultiSpaceSeparates ==
    \A c \in Callers :
        Returned(c, "morse_code_decoder") /\ TwoMorseLetters(frame[c].input) =>
            LET sep == Between(frame[c].input)
            IN  /\ (sep \in {<<47>>, <<124>>} \/ (Len(sep) > 1 /\ sep = Spaces(Len(sep))))
                    => frame[c].outcome = MorseLettersWith(frame[c].input, <<32>>)
                /\ sep = Spaces(1)
                    => frame[c].outcome = MorseLettersWith(frame[c].input, <<>>)

\* C16: every call of get_cipher_agents that returns, by any thread and at
\* any time, also during the first initialization by another thread, returns
\* a mapping with all five agents, never an empty or partial one.
C16_AllAgentsReturned ==
    \A t \in Threads :
        (thread[t].pc = "done" /\ thread[t].op = "get_cipher_agents"
            /\ thread[t].result.kind = "return")
            => thread[t].result.agents = AgentsDict(AGENT_NAMES)

\* What does hold: the mapping is complete or empty, and complete once the
\* initializing thread has stored _cipher_agents.
C16_AllOrNone ==
    \A t \in Threads :
        (thread[t].pc = "done" /\ thread[t].op = "get_cipher_agents"
            /\ thread[t].result.kind = "return")
            => thread[t].result.agents \in {AgentsDict(AGENT_NAMES), AgentsDict({})}

\* C17: however many threads call get_cipher_swarm / get_cipher_agents,
\* _create_swarm runs to completion at most once, every get_cipher_swarm that
\* returns yields that one instance, and _swarm, once set, is never replaced.
C17_SwarmSingleton ==
    /\ [](globals.constructed <= 1)
    /\ [](\A t \in Threads :
            (thread[t].pc = "done" /\ thread[t].op = "get_cipher_swarm"
                /\ thread[t].result.kind = "return")
                => thread[t].result.swarm = 1 /\ globals.swarm = 1)
    /\ [][globals.swarm # 0 => globals'.swarm = globals.swarm]_vars

\* Every thread has returned from get_cipher_swarm and one swarm was built.
C17_Witness ==
    /\ \A t \in Threads : thread[t].pc = "done" /\ thread[t].op = "get_cipher_swarm"
                             /\ thread[t].result.kind = "return"
    /\ globals.constructed = 1

\* C18: a heartbeat task is started only for a non-empty prompt and a
\* context that supports ping; whenever one was started it has been
\* cancelled and awaited (it has ended) when the entrypoint returns, whether
\* it returns a text of the response or "Error processing cipher: ..."; and
\* a ping that fails ends neither the heartbeat loop nor the request.
C18_HeartbeatLifecycle ==
    /\ [](hb.state # "none" =>
            /\ entry.prompt # ""
            /\ entry.context \in {"falsy_with_ping", "with_ping"}
            /\ entry.ping_task)
    /\ [](entry.pc = "done" /\ entry.ping_task =>
            /\ entry.result.kind = "return"
            /\ hb.cancel_requested
            /\ hb.state = "cancelled")
    /\ [](entry.pc = "done" /\ ~entry.ping_task => hb.state = "none")
    /\ [][hb'.failed > hb.failed =>
            /\ hb'.state = "sleeping"
            /\ entry' = entry]_vars

\* The request ended with the error string of a failed invocation after a
\* heartbeat with a failed ping; the task is cancelled and over.
C18_Witness ==
    /\ entry.pc = "done"
    /\ entry.ping_task
    /\ entry.result.value = ERROR_PROCESSING
    /\ hb.failed > 0
    /\ hb.state = "cancelled"

=============================================================================
